---- MODULE Spec2Model ----
(***************************************************************************)
(* A model of skillet's installation core: the lockfile generator          *)
(* (src/src/lockfile/generate-lock.ts), the installer (the second half of  *)
(* src/src/resolvers/git.ts), the check and update commands                *)
(* (src/src/commands/check.ts, update.ts) and the add command              *)
(* (src/src/commands/add.ts).                                              *)
(*                                                                         *)
(* Strings are TLA+ strings; TLC concatenates them with \o, so the keys    *)
(* the code builds with join("|") and with template strings are built      *)
(* here the same way.  A JavaScript `undefined` is the string Undefined.   *)
(***************************************************************************)
EXTENDS Integers, Sequences, FiniteSets

VARIABLES
  agentDirs,   \* [agent -> [skill directory name -> entry]]: <root>/.<agent>/skills/<name>
  storage,     \* [storage key -> [skill directory name -> entry]]: <root>/.skillet/storage/<key>/<name>
  lockfile,    \* the document in <root>/skillet.lock.yaml, or NoLockfile
  lockRuns,    \* the documents returned by the generateLockfile calls made since the disk last changed
  sourceSkill, \* the entry at sourceSkillPath
  skillsDir,   \* what targetSkillsDir is: "none", "dir" or "file"
  tempPaths,   \* the sibling temp paths of installSkill: [storage, target, link]
  inst,        \* the installSkill call in progress and what it found when it began
  instResult,  \* what the last installSkill call returned or threw
  checkRun,    \* the collectCheckResults call in progress, or the last one made
  upstream,    \* the upstream repository: what its refs point to, and whether it can be reached
  cli,         \* the command that made the last step, if one did: its exit code and results
  scenario,    \* how far the commands run so far follow add, check, push, check, update, check
  updateRun,   \* the runUpdateCommand call in progress, or the last one made
  ociRun,      \* the resolveOciSource call in progress, or the last one made
  httpRun,     \* the resolveHttpArchive call in progress, or the last one made
  discoverRun, \* the discoverSkills call in progress, or the last one made
  parseRun,    \* the parseGitSource call in progress, or the last one made
  agentsRun,   \* the resolveTargetAgents call in progress, or the last one made
  addRun       \* the runAddCommand call in progress, or the last one made

fsVars == <<agentDirs, storage>>
lockVars == <<lockfile, lockRuns>>
instVars == <<sourceSkill, skillsDir, tempPaths, inst, instResult>>
checkVars == <<checkRun>>
cliVars == <<upstream, cli, scenario>>
runVars == <<updateRun, ociRun, httpRun, discoverRun, parseRun, agentsRun, addRun>>

\* What installSkill and its callers in SpecInstall never touch.
outsideInstall == <<lockVars, checkVars, cliVars, runVars>>

vars ==
  <<agentDirs, storage, lockfile, lockRuns, sourceSkill, skillsDir, tempPaths, inst,
    instResult, checkRun, upstream, cli, scenario, updateRun, ociRun, httpRun, discoverRun,
    parseRun, agentsRun, addRun>>

(***************************************************************************)
(* JavaScript values                                                       *)
(***************************************************************************)
Undefined == "<undefined>"
NotAString == "<not-a-string>"

\* value ?? fallback
Coalesce(value, fallback) == IF value = Undefined THEN fallback ELSE value

\* value.trim().length === 0, on the strings of the model
IsBlank(value) == value \in {"", " "}

\* String.prototype.localeCompare on the strings the model sorts: their order
\* under the root collation (the empty string first, punctuation before
\* letters, a proper prefix before its extensions).
CollationOrder ==
  << "", "*", "/h/.codex/skills", "/h/.codex/skills/beta", "/h/.codex/skills/beta/SKILL.md",
     "/w", "/w/.codex/skills", "/w/.codex/skills/alpha", "/w/.codex/skills/alpha/SKILL.md",
     "/w/.codex/skills/SKILL.md", "/w/custom", "/w/custom/nested/beta",
     "/w/custom/nested/beta/SKILL.md", "/w/custom/SKILL.md", "/w/node_modules/pkg/beta",
     "/w/node_modules/pkg/beta/SKILL.md", "/w/other/deep/beta", "/w/other/deep/beta/SKILL.md",
     "/w/SKILL.md", "/w/skills", "/w/skills/.curated", "/w/skills/.curated/alpha",
     "/w/skills/.curated/alpha/SKILL.md", "/w/skills/.curated/SKILL.md", "/w/skills/alpha",
     "/w/skills/alpha/SKILL.md", "/w/skills/SKILL.md",
     "|", "1111111111111111111111111111111111111111",
     "2222222222222222222222222222222222222222",
     "3333333333333333333333333333333333333333", "4444444444444444444444444444444444444444",
     "alpha", "beta", "claude", "codex", "copy", "cursor",
     "custom",
     "file:///cwd/.claude/skills/alpha", "file:///cwd/.claude/skills/beta",
     "file:///cwd/.codex/skills/alpha", "file:///cwd/.codex/skills/beta",
     "file:///cwd/.opencode/skills/alpha", "file:///cwd/.opencode/skills/beta",
     "gamma", "git", "https://github.com/org/repo.git", "https://github.com/org/repo.git|x.git", "main", "oci",
     "opencode", "skills", "symlink", "u", "u|", "unknown", "v1", "w", "windsurf", "x.git|main" >>

CollationRanks ==
  [s \in {CollationOrder[i] : i \in 1..Len(CollationOrder)} |->
     CHOOSE i \in 1..Len(CollationOrder) : CollationOrder[i] = s]

CollationRank(s) == CollationRanks[s]

LocaleCompare(a, b) == CollationRank(a) - CollationRank(b)

\* Array.prototype.sort(compare): a stable sort, given compared[j][i] =
\* compare(seq[j], seq[i]). Element i goes behind the elements that compare
\* below it and the equal ones that stood before it.
ArraySort(seq, compared) ==
  LET place == [i \in 1..Len(seq) |->
                  Cardinality({j \in 1..Len(seq) :
                                 \/ compared[j][i] < 0
                                 \/ (compared[j][i] = 0 /\ j < i)})]
  IN [k \in 1..Len(seq) |-> seq[CHOOSE i \in 1..Len(seq) : place[i] = k - 1]]

\* [...set].sort((a, b) => a.localeCompare(b)): the set's members, ascending.
RECURSIVE SortedStrings(_)
SortedStrings(set) ==
  IF set = {} THEN <<>>
  ELSE LET least == CHOOSE x \in set : \A y \in set : LocaleCompare(x, y) <= 0
       IN <<least>> \o SortedStrings(set \ {least})

Range(seq) == {seq[i] : i \in 1..Len(seq)}

\* The member of a set of one: `The({F(x) : x \in {e}})` is F(e), with e
\* evaluated once.
The(set) == CHOOSE x \in set : TRUE

\* Every order in which readdir may list the members of a set.
Enumerations(set) ==
  {q \in [1..Cardinality(set) -> set] : \A i, j \in 1..Cardinality(set) : q[i] = q[j] => i = j}

(***************************************************************************)
(* The file system under the scope root                                    *)
(***************************************************************************)
AGENT_SKILL_DIRS == <<"claude", "codex", "opencode", "cursor", "windsurf">>

KNOWN_AGENTS == Range(AGENT_SKILL_DIRS)

SkillNames == {"alpha", "beta"}

\* A provenance sidecar (.skillet-source.json) as it lies on disk.
NoMeta ==
  [present |-> FALSE, wellformed |-> FALSE, type |-> Undefined, url |-> Undefined,
   ref |-> Undefined, digest |-> Undefined, installMethod |-> Undefined]

SidecarJson(type, url, ref, digest, installMethod) ==
  [present |-> TRUE, wellformed |-> TRUE, type |-> type, url |-> url,
   ref |-> ref, digest |-> digest, installMethod |-> installMethod]

MalformedMeta == [NoMeta EXCEPT !.present = TRUE]

NoFiles == [f \in {} |-> ""]

\* A directory: the name its SKILL.md declares (Undefined without a SKILL.md,
\* InvalidSkillMd when the file does not parse), its other files (name ->
\* content) and its sidecar.
InvalidSkillMd == "<invalid>"

MkDir(skillmd, files, meta) == [skillmd |-> skillmd, files |-> files, meta |-> meta]

EmptyDir == MkDir(Undefined, NoFiles, NoMeta)

\* A directory entry: nothing, a regular file, a directory, or a symbolic link
\* to <storage root>/<target>/<the entry's own name>.
NoEntry == [kind |-> "none", dir |-> EmptyDir, target |-> ""]
FileEntry == [kind |-> "file", dir |-> EmptyDir, target |-> ""]
DirEntry(dir) == [kind |-> "dir", dir |-> dir, target |-> ""]
LinkEntry(key) == [kind |-> "symlink", dir |-> EmptyDir, target |-> key]

\* fs.statSync(path): the entry a path resolves to, following one symbolic link.
Stat(entry, name, stor) ==
  IF entry.kind = "symlink"
  THEN IF entry.target \in DOMAIN stor THEN stor[entry.target][name] ELSE NoEntry
  ELSE entry

IsDirectory(entry, name, stor) == Stat(entry, name, stor).kind = "dir"

\* isFile(<dir>/SKILL.md)
HasSkillFile(dir) == dir.skillmd # Undefined

\* parseSkillMarkdown without validateName's comparison with the directory.
DeclaresAName(dir, dirName) == dir.skillmd # Undefined

\* parseSkillMarkdown(text, {path}) succeeds: the frontmatter parses and the
\* declared name equals the directory's name.
ParsesAsSkill(dir, dirName) == dir.skillmd = dirName

SkillDirPath(agent, name) == "file:///cwd/." \o agent \o "/skills/" \o name

(***************************************************************************)
(* lockfile/generate-lock.ts                                               *)
(***************************************************************************)
ReadOptionalString(value) ==
  IF value = Undefined \/ value = NotAString \/ IsBlank(value) THEN Undefined ELSE value

ReadSourceMetadata(dir) ==
  IF ~dir.meta.present \/ ~dir.meta.wellformed
  THEN [type |-> Undefined, url |-> Undefined, ref |-> Undefined,
        digest |-> Undefined, installMethod |-> Undefined]
  ELSE [type |-> ReadOptionalString(dir.meta.type),
        url |-> ReadOptionalString(dir.meta.url),
        ref |-> ReadOptionalString(dir.meta.ref),
        digest |-> ReadOptionalString(dir.meta.digest),
        installMethod |-> ReadOptionalString(dir.meta.installMethod)]

\* listSkillDirectories: the children that are directories (or links to one),
\* listed by readdir in the order `listing`, then sorted by path.
ListSkillDirectories(agentDir, listing, stor) ==
  LET kept == SelectSeq(listing, LAMBDA name : IsDirectory(agentDir[name], name, stor))
  IN ArraySort(kept, [j \in 1..Len(kept) |->
                       [i \in 1..Len(kept) |-> LocaleCompare(kept[j], kept[i])]])

\* The provenance tuple generateLockfile derives for one installed skill.
SourceOf(agent, name, entry, stor) ==
  LET metadata == ReadSourceMetadata(Stat(entry, name, stor).dir)
  IN [type |-> Coalesce(metadata.type, "unknown"),
      url |-> Coalesce(metadata.url, SkillDirPath(agent, name)),
      ref |-> metadata.ref,
      digest |-> metadata.digest,
      installMethod |-> Coalesce(metadata.installMethod,
                                 IF entry.kind = "symlink" THEN "symlink" ELSE "copy")]

GroupKey(source) ==
  source.type \o "|" \o source.url \o "|" \o Coalesce(source.ref, "") \o "|"
    \o Coalesce(source.digest, "") \o "|" \o source.installMethod

\* The skills generateLockfile visits, in its order: agent by agent, and
\* within an agent in the order of listSkillDirectories; only directories
\* whose SKILL.md parses.
RECURSIVE VisitsFrom(_, _, _, _)
VisitsFrom(i, dirs, listings, stor) ==
  IF i > Len(AGENT_SKILL_DIRS) THEN <<>>
  ELSE LET agent == AGENT_SKILL_DIRS[i]
           names == ListSkillDirectories(dirs[agent], listings[agent], stor)
           valid == SelectSeq(names, LAMBDA name :
                       LET dir == Stat(dirs[agent][name], name, stor).dir
                       IN HasSkillFile(dir) /\ ParsesAsSkill(dir, name))
       IN [k \in 1..Len(valid) |-> [agent |-> agent, name |-> valid[k]]]
            \o VisitsFrom(i + 1, dirs, listings, stor)

\* One pass of the loop body: groupedSources.get(key) ?? a new group, with the
\* skill's name and agent added to it.
GroupOne(groups, visit, dirs, stor) ==
  LET source == SourceOf(visit.agent, visit.name, dirs[visit.agent][visit.name], stor)
      key == GroupKey(source)
      at == {i \in 1..Len(groups) : groups[i].key = key}
  IN IF at = {}
     THEN Append(groups, [key |-> key, source |-> source,
                          skills |-> {visit.name}, agents |-> {visit.agent}])
     ELSE LET i == CHOOSE j \in at : TRUE
          IN [groups EXCEPT ![i].skills = @ \cup {visit.name},
                            ![i].agents = @ \cup {visit.agent}]

RECURSIVE GroupFrom(_, _, _, _, _)
GroupFrom(groups, k, visits, dirs, stor) ==
  IF k > Len(visits) THEN groups
  ELSE GroupFrom(GroupOne(groups, visits[k], dirs, stor), k + 1, visits, dirs, stor)

\* A generator that opens a new group for every skill it visits.
GroupVisitsNoMerge(visits, dirs, stor) ==
  [k \in 1..Len(visits) |->
     LET source == SourceOf(visits[k].agent, visits[k].name,
                            dirs[visits[k].agent][visits[k].name], stor)
     IN [key |-> GroupKey(source), source |-> source,
         skills |-> {visits[k].name}, agents |-> {visits[k].agent}]]

\* groupedSources after the visits: a Map, kept in insertion order.
GroupVisits(visits, dirs, stor) == GroupFrom(<<>>, 1, visits, dirs, stor)

\* source.ref is kept only when truthy
Truthy(value) == value # Undefined /\ value # ""

NormalizeGroup(group) ==
  [type |-> group.source.type,
   url |-> group.source.url,
   ref |-> IF Truthy(group.source.ref) THEN group.source.ref ELSE Undefined,
   digest |-> IF Truthy(group.source.digest) THEN group.source.digest ELSE Undefined,
   installMethod |-> group.source.installMethod,
   skills |-> SortedStrings(group.skills),
   agents |-> SortedStrings(group.agents)]

\* The comparator of the final sort: type, url, ref, digest, installMethod.
CompareSources(left, right) ==
  LET SortKeys(s) == <<s.type, s.url, Coalesce(s.ref, ""), Coalesce(s.digest, ""), s.installMethod>>
      l == SortKeys(left)
      r == SortKeys(right)
      differ == {i \in 1..5 : LocaleCompare(l[i], r[i]) # 0}
  IN IF differ = {} THEN 0
     ELSE LET first == CHOOSE i \in differ : \A j \in differ : i <= j
          IN LocaleCompare(l[first], r[first])

\* A generator that leaves the entries in the order the groups were opened.
SortSourcesOmitted(sources) == sources

SortSources(sources) ==
  ArraySort(sources, [j \in 1..Len(sources) |->
                       [i \in 1..Len(sources) |-> CompareSources(sources[j], sources[i])]])

\* generateLockfile: the `sources` of the document it writes and returns.
\* `listings` is the order in which readdir lists each agent's directory.
GenerateLockfile(dirs, listings, stor) ==
  LET groups == GroupVisits(VisitsFrom(1, dirs, listings, stor), dirs, stor)
  IN SortSources([i \in 1..Len(groups) |-> NormalizeGroup(groups[i])])

NoLockfile == <<[type |-> "<no lockfile>"]>>

(***************************************************************************)
(* install/installer.ts (in src/src/resolvers/git.ts from line 244)        *)
(***************************************************************************)
\* digestSourceId: the first 16 hex digits of sha256(sourceId), kept symbolic.
DigestSourceId(sourceId) == "sha256(" \o sourceId \o ")[:16]"

\* The parts of a directory that cpSync copies and rmSync removes one by one.
SkillFile == "SKILL.md"
SOURCE_METADATA_FILENAME == ".skillet-source.json"

PartsOf(dir) ==
  (IF dir.skillmd # Undefined THEN {SkillFile} ELSE {})
    \cup DOMAIN dir.files
    \cup (IF dir.meta.present THEN {SOURCE_METADATA_FILENAME} ELSE {})

\* The directory with only the parts named.
Restrict(dir, parts) ==
  MkDir(IF SkillFile \in parts THEN dir.skillmd ELSE Undefined,
        [f \in DOMAIN dir.files \cap parts |-> dir.files[f]],
        IF SOURCE_METADATA_FILENAME \in parts THEN dir.meta ELSE NoMeta)

\* removePathIfExists without the removal: nothing is ever found to remove.
NeverExists(entry, name, stor) == FALSE

\* fs.existsSync(path): follows a symbolic link, so a dangling link does not exist.
Exists(entry, name, stor) == Stat(entry, name, stor).kind # "none"

\* assertReplaceableInstallPath without the lstat check.
AnyInstallPath(entry, name, stor) == TRUE

\* assertReplaceableInstallPath returns without throwing.
IsReplaceableInstallPath(entry, name, stor) ==
  ~Exists(entry, name, stor) \/ entry.kind \in {"dir", "symlink"}

\* One step of fs.cpSync(source, temp, {recursive}): the temp directory is
\* made, then one more part of the source is written into it.
CopyStepInto(temp, source) ==
  IF temp.kind = "none" THEN {DirEntry(EmptyDir)}
  ELSE {DirEntry(Restrict(source, PartsOf(temp.dir) \cup {p})) : p \in PartsOf(source) \ PartsOf(temp.dir)}

\* A copy renamed into place as soon as its directory has been made.
CopyStarted(temp, source) == temp.kind = "dir"

CopyComplete(temp, source) == temp.kind = "dir" /\ PartsOf(temp.dir) = PartsOf(source)

\* One step of fs.rmSync(path, {recursive, force}): a link or a file is
\* unlinked; a directory loses one part, and once empty is removed.
RemoveStepOf(entry) ==
  IF entry.kind # "dir" \/ PartsOf(entry.dir) = {} THEN {NoEntry}
  ELSE {DirEntry(Restrict(entry.dir, PartsOf(entry.dir) \ {p})) : p \in PartsOf(entry.dir)}

\* fs.renameSync(temp, destination) succeeds: a directory replaces only an
\* empty directory (else ENOTDIR, ENOTEMPTY), a link only what is not a
\* directory (else EISDIR). The entries are not followed.
RenameSucceeds(temp, destination) ==
  \/ destination.kind = "none"
  \/ temp.kind = "dir" /\ destination.kind = "dir" /\ PartsOf(destination.dir) = {}
  \/ temp.kind = "symlink" /\ destination.kind \in {"symlink", "file"}

RenameError(temp, destination) ==
  IF temp.kind = "dir"
  THEN IF destination.kind = "dir" THEN "ENOTEMPTY" ELSE "ENOTDIR"
  ELSE "EISDIR"

InstAgent == "codex"
InstSkill == "alpha"
InstSourceId == "github.com/org/repo"
InstKey == DigestSourceId(InstSourceId)

\* The storage key of another source, installed earlier under the same skill name.
OtherSourceId == "github.com/org/other"
OtherKey == DigestSourceId(OtherSourceId)

SourceFirst == MkDir(InstSkill, [f \in {"notes.txt", "old.txt"} |-> "first"], NoMeta)
SourceSecond == MkDir(InstSkill, [f \in {"notes.txt"} |-> "second"], NoMeta)

NoTemps == [storage |-> NoEntry, target |-> NoEntry, link |-> NoEntry]

NoCall ==
  [pc |-> "idle", preferCopy |-> FALSE, fault |-> "none", priorStorage |-> NoEntry,
   priorTarget |-> NoEntry, priorSkillsDir |-> "none"]

NoResult == [status |-> "none", method |-> "", error |-> "", path |-> ""]
Returned(method) == [status |-> "ok", method |-> method, error |-> "", path |-> ""]
Thrown(error, path) == [status |-> "throw", method |-> "", error |-> error, path |-> path]

InstallerAtRest ==
  /\ sourceSkill = NoEntry
  /\ skillsDir = "none"
  /\ tempPaths = NoTemps
  /\ inst = NoCall
  /\ instResult = NoResult

installedPath == agentDirs[InstAgent][InstSkill]
storagePath == storage[InstKey][InstSkill]

SetInstalled(entry) == agentDirs' = [agentDirs EXCEPT ![InstAgent][InstSkill] = entry]
SetStorage(entry) == storage' = [storage EXCEPT ![InstKey][InstSkill] = entry]
Goto(pc) == inst' = [inst EXCEPT !.pc = pc]

SourcePathName == "<sourceSkillPath>"
TargetDirName == "<targetSkillsDir>"
InstalledPathName == "<targetSkillsDir>/" \o InstSkill
StoragePathName == "<storageRoot>/" \o InstKey \o "/" \o InstSkill

\* installSkill, lines 279-299: the three checks made before anything is written.
InstallBegin ==
  /\ inst.pc = "idle"
  /\ \E preferCopy \in BOOLEAN, fault \in {"none", "symlink", "remove", "rename"} :
       LET call == [pc |-> "mkdir", preferCopy |-> preferCopy, fault |-> fault,
                    priorStorage |-> storagePath, priorTarget |-> installedPath,
                    priorSkillsDir |-> skillsDir]
           failed(error, path) ==
             /\ inst' = [call EXCEPT !.pc = "returned"]
             /\ instResult' = Thrown(error, path)
       IN IF sourceSkill.kind # "dir"
          THEN failed("InstallConflictError", SourcePathName)
          ELSE IF skillsDir = "file"
          THEN failed("InstallConflictError", TargetDirName)
          ELSE IF ~IsReplaceableInstallPath(installedPath, InstSkill, storage)
          THEN failed("InstallConflictError", InstalledPathName)
          ELSE inst' = call /\ instResult' = NoResult
  /\ UNCHANGED <<fsVars, outsideInstall, sourceSkill, skillsDir, tempPaths>>

\* line 300: fs.mkdirSync(targetSkillsDir, {recursive: true})
MkdirTarget ==
  /\ inst.pc = "mkdir"
  /\ skillsDir' = "dir"
  /\ Goto("storeCopy")
  /\ UNCHANGED <<fsVars, outsideInstall, sourceSkill, tempPaths, instResult>>

\* replaceDirectoryAtomically(sourceSkillPath, storagePath), line 351: cpSync to the temp path
StoreCopy ==
  /\ inst.pc = "storeCopy"
  /\ IF CopyComplete(tempPaths.storage, sourceSkill.dir)
     THEN Goto("storeRemove") /\ UNCHANGED tempPaths
     ELSE /\ \E next \in CopyStepInto(tempPaths.storage, sourceSkill.dir) :
               tempPaths' = [tempPaths EXCEPT !.storage = next]
          /\ UNCHANGED inst
  /\ UNCHANGED <<fsVars, outsideInstall, sourceSkill, skillsDir, instResult>>

\* line 354: removePathIfExists(storagePath)
StoreRemove ==
  /\ inst.pc = "storeRemove"
  /\ IF ~Exists(storagePath, InstSkill, storage)
     THEN Goto("storeRename") /\ UNCHANGED storage
     ELSE /\ \E next \in RemoveStepOf(storagePath) : SetStorage(next)
          /\ UNCHANGED inst
  /\ UNCHANGED <<agentDirs, outsideInstall, sourceSkill, skillsDir, tempPaths, instResult>>

\* line 355: fs.renameSync(tempPath, storagePath), then installIntoTarget
\* (line 328); a throw removes the temp directory (357) and leaves installSkill.
StoreRename ==
  /\ inst.pc = "storeRename"
  /\ IF RenameSucceeds(tempPaths.storage, storagePath)
     THEN /\ SetStorage(tempPaths.storage)
          /\ Goto(IF inst.preferCopy THEN "targetCopy" ELSE "linkCreate")
          /\ UNCHANGED instResult
     ELSE /\ instResult' = Thrown(RenameError(tempPaths.storage, storagePath), StoragePathName)
          /\ Goto("returned")
          /\ UNCHANGED storage
  /\ tempPaths' = [tempPaths EXCEPT !.storage = NoEntry]
  /\ UNCHANGED <<agentDirs, outsideInstall, sourceSkill, skillsDir>>

\* replaceSymlinkAtomically, line 371: symlinkFn(targetPath, tempLinkPath); when
\* it throws, installIntoTarget's catch falls back to the copy (line 341).
LinkCreate ==
  /\ inst.pc = "linkCreate"
  /\ IF inst.fault = "symlink"
     THEN Goto("targetCopy") /\ UNCHANGED tempPaths
     ELSE tempPaths' = [tempPaths EXCEPT !.link = LinkEntry(InstKey)] /\ Goto("linkRemove")
  /\ UNCHANGED <<fsVars, outsideInstall, sourceSkill, skillsDir, instResult>>

\* line 374: removePathIfExists(linkPath); a throw removes the temp link (377)
\* and reaches the copy fallback.
LinkRemove ==
  /\ inst.pc = "linkRemove"
  /\ IF inst.fault = "remove"
     THEN /\ tempPaths' = [tempPaths EXCEPT !.link = NoEntry]
          /\ Goto("targetCopy")
          /\ UNCHANGED agentDirs
     ELSE IF ~Exists(installedPath, InstSkill, storage)
     THEN Goto("linkRename") /\ UNCHANGED <<agentDirs, tempPaths>>
     ELSE /\ \E next \in RemoveStepOf(installedPath) : SetInstalled(next)
          /\ UNCHANGED <<inst, tempPaths>>
  /\ UNCHANGED <<storage, outsideInstall, sourceSkill, skillsDir, instResult>>

\* line 375: fs.renameSync(tempLinkPath, linkPath)
LinkRename ==
  /\ inst.pc = "linkRename"
  /\ IF inst.fault = "rename" \/ ~RenameSucceeds(tempPaths.link, installedPath)
     THEN /\ tempPaths' = [tempPaths EXCEPT !.link = NoEntry]
          /\ Goto("targetCopy")
          /\ UNCHANGED <<agentDirs, instResult>>
     ELSE /\ SetInstalled(tempPaths.link)
          /\ tempPaths' = [tempPaths EXCEPT !.link = NoEntry]
          /\ instResult' = Returned("symlink")
          /\ Goto("returned")
  /\ UNCHANGED <<storage, outsideInstall, sourceSkill, skillsDir>>

\* replaceDirectoryAtomically(storagePath, installedPath), line 351
TargetCopy ==
  /\ inst.pc = "targetCopy"
  /\ IF CopyComplete(tempPaths.target, storagePath.dir)
     THEN Goto("targetRemove") /\ UNCHANGED tempPaths
     ELSE /\ \E next \in CopyStepInto(tempPaths.target, storagePath.dir) :
               tempPaths' = [tempPaths EXCEPT !.target = next]
          /\ UNCHANGED inst
  /\ UNCHANGED <<fsVars, outsideInstall, sourceSkill, skillsDir, instResult>>

\* line 354: removePathIfExists(installedPath)
TargetRemove ==
  /\ inst.pc = "targetRemove"
  /\ IF ~Exists(installedPath, InstSkill, storage)
     THEN Goto("targetRename") /\ UNCHANGED agentDirs
     ELSE /\ \E next \in RemoveStepOf(installedPath) : SetInstalled(next)
          /\ UNCHANGED inst
  /\ UNCHANGED <<storage, outsideInstall, sourceSkill, skillsDir, tempPaths, instResult>>

\* line 355: fs.renameSync(tempPath, installedPath); a throw removes the temp
\* directory (357) and leaves installSkill.
TargetRename ==
  /\ inst.pc = "targetRename"
  /\ IF RenameSucceeds(tempPaths.target, installedPath)
     THEN /\ SetInstalled(tempPaths.target)
          /\ instResult' = Returned("copy")
     ELSE /\ instResult' = Thrown(RenameError(tempPaths.target, installedPath), InstalledPathName)
          /\ UNCHANGED agentDirs
  /\ tempPaths' = [tempPaths EXCEPT !.target = NoEntry]
  /\ Goto("returned")
  /\ UNCHANGED <<storage, outsideInstall, sourceSkill, skillsDir>>

(***************************************************************************)
(* commands/check.ts                                                       *)
(***************************************************************************)
\* Commit ids as git prints them (40 hex digits), and something shorter.
CommitOne == "1111111111111111111111111111111111111111"
CommitTwo == "2222222222222222222222222222222222222222"
ShortId == "abc1234"

\* Manifest digests.
ManifestOne == "sha256:" \o CommitOne
ManifestTwo == "sha256:" \o CommitTwo

\* crypto.createHash("sha256").update(text).digest("hex"), kept symbolic.
Sha256Hex(text) == "sha256hex(" \o text \o ")"

\* What a query returns: a digest, or that it threw.
QueryThrew == [ok |-> FALSE, digest |-> Undefined]
QueryGave(digest) == [ok |-> TRUE, digest |-> digest]

\* What `git ls-remote <url> <ref>` did: it failed, or printed lines, each
\* given here by its first field ("" for a blank line).
GitFailed == [kind |-> "fail", lines |-> <<>>, header |-> Undefined, body |-> ""]
GitPrinted(lines) == [kind |-> "git", lines |-> lines, header |-> Undefined, body |-> ""]

\* What the manifest request did: it failed (fetch threw, or the response was
\* not ok), or answered with a docker-content-digest header (or none) and a body.
OciFailed == [kind |-> "fail", lines |-> <<>>, header |-> Undefined, body |-> ""]
OciManifest(header, body) == [kind |-> "oci", lines |-> <<>>, header |-> header, body |-> body]

NoAnswer == [kind |-> "none", lines |-> <<>>, header |-> Undefined, body |-> ""]

\* getLatestGitDigest: the first field of the first non-blank line.
GetLatestGitDigest(answer) ==
  IF answer.kind # "git" THEN QueryThrew
  ELSE LET filled == SelectSeq(answer.lines, LAMBDA line : line # "")
       IN IF filled = <<>> THEN QueryThrew
          ELSE IF Len(filled[1]) < 40 THEN QueryThrew
          ELSE QueryGave(filled[1])

\* parseOciReference, for the references of the model.
OciTagged == "oci://r/a:v1"
OciPinned == "oci://r/a@" \o ManifestOne
OciNoRepository == "oci://r"

OciParseThrew == [ok |-> FALSE, registry |-> "", repository |-> "", referenceType |-> "", reference |-> ""]

ParseOciReference(source) ==
  CASE source = OciTagged ->
         [ok |-> TRUE, registry |-> "r", repository |-> "a", referenceType |-> "tag", reference |-> "v1"]
    [] source = OciPinned ->
         [ok |-> TRUE, registry |-> "r", repository |-> "a", referenceType |-> "digest",
          reference |-> ManifestOne]
    [] OTHER -> OciParseThrew

\* getLatestOciDigest
GetLatestOciDigest(source, answer) ==
  LET parsed == ParseOciReference(source)
  IN IF ~parsed.ok THEN QueryThrew
     ELSE IF parsed.referenceType = "digest" THEN QueryGave(parsed.reference)
     ELSE IF answer.kind # "oci" THEN QueryThrew
     ELSE IF answer.header # Undefined THEN QueryGave(answer.header)
     ELSE QueryGave("sha256:" \o Sha256Hex(answer.body))

Checked(status, latestDigest) == [status |-> status, latestDigest |-> latestDigest]

\* checkSource with the mismatch test alone, without `source.digest &&`.
CheckSourceAnyMismatch(source, answer) ==
  IF source.type \notin {"git", "oci"} THEN Checked("unsupported", Undefined)
  ELSE LET latest == IF source.type = "git" THEN GetLatestGitDigest(answer)
                     ELSE GetLatestOciDigest(source.url, answer)
       IN IF ~latest.ok THEN Checked("error", Undefined)
          ELSE IF latest.digest # source.digest THEN Checked("outdated", latest.digest)
          ELSE Checked("up-to-date", latest.digest)

\* checkSource without its try/catch: a failed query leaves it as an exception.
CheckSourceUncaught(source, answer) ==
  IF source.type \notin {"git", "oci"} THEN Checked("unsupported", Undefined)
  ELSE LET latest == IF source.type = "git" THEN GetLatestGitDigest(answer)
                     ELSE GetLatestOciDigest(source.url, answer)
       IN IF ~latest.ok THEN Checked("<thrown>", Undefined)
          ELSE IF Truthy(source.digest) /\ latest.digest # source.digest
          THEN Checked("outdated", latest.digest)
          ELSE Checked("up-to-date", latest.digest)

\* checkSource
CheckSource(source, answer) ==
  IF source.type = "git"
  THEN LET latest == GetLatestGitDigest(answer)
       IN IF ~latest.ok THEN Checked("error", Undefined)
          ELSE IF Truthy(source.digest) /\ latest.digest # source.digest
          THEN Checked("outdated", latest.digest)
          ELSE Checked("up-to-date", latest.digest)
  ELSE IF source.type = "oci"
  THEN LET latest == GetLatestOciDigest(source.url, answer)
       IN IF ~latest.ok THEN Checked("error", Undefined)
          ELSE IF Truthy(source.digest) /\ latest.digest # source.digest
          THEN Checked("outdated", latest.digest)
          ELSE Checked("up-to-date", latest.digest)
  ELSE Checked("unsupported", Undefined)

\* The results collectCheckResults pushes for one source: one per listed skill.
\* `entry` is the position in the lockfile of the source object the result holds.
ResultsOf(entry, source, checked) ==
  [k \in 1..Len(source.skills) |->
     [entry |-> entry, source |-> source, skill |-> source.skills[k],
      status |-> checked.status, currentDigest |-> source.digest,
      latestDigest |-> checked.latestDigest]]

\* results.sort((left, right) => left.skill.localeCompare(right.skill))
SortResults(results) ==
  ArraySort(results, [j \in 1..Len(results) |->
                       [i \in 1..Len(results) |-> LocaleCompare(results[j].skill, results[i].skill)]])

NoCheckRun ==
  [pc |-> "idle", sources |-> <<>>, index |-> 0, results |-> <<>>, answers |-> <<>>,
   thrown |-> FALSE]

CheckerAtRest == checkRun = NoCheckRun

(***************************************************************************)
(* The upstream repository, as git shows it                                *)
(***************************************************************************)
\* The refs of the upstream repository: a branch and an annotated tag.
Refs == {"main", "v1"}
AnnotatedTags == {"v1"}

Commits == {CommitOne, CommitTwo}

\* The id of the tag object an annotated tag of the commit has.
TagObjectOf(commit) ==
  IF commit = CommitOne THEN "aaaaaaaaaaaaaaaaaaaaaaaaaaaaaaaaaaaaaaaa"
  ELSE "bbbbbbbbbbbbbbbbbbbbbbbbbbbbbbbbbbbbbbbb"

SkillDir(name, text) == MkDir(name, [f \in {"notes.txt"} |-> text], NoMeta)

\* The skill directories in the tree of a commit: name -> directory.
CommitTree(commit) ==
  IF commit = CommitOne
  THEN [n \in {"alpha"} |-> SkillDir(n, "first")]
  ELSE [n \in {"alpha", "beta"} |-> SkillDir(n, "second")]

\* `git ls-remote <url> <ref-or-HEAD>`: fails offline or for an unknown ref; for
\* a branch prints the commit it points to, for an annotated tag the id of the
\* tag object. HEAD is the branch main.
LsRemote(up, ref) ==
  LET requestedRef == IF ref # Undefined /\ Len(ref) > 0 THEN ref ELSE "HEAD"
      named == IF requestedRef = "HEAD" THEN "main" ELSE requestedRef
  IN IF ~up.online THEN GitFailed
     ELSE IF named \notin Refs THEN GitPrinted(<<>>)
     ELSE IF named \in AnnotatedTags THEN GitPrinted(<<TagObjectOf(up.refs[named])>>)
     ELSE GitPrinted(<<up.refs[named]>>)

(***************************************************************************)
(* resolvers/git.ts                                                        *)
(***************************************************************************)
RepoShorthand == "org/repo"
RepoUrl == "https://github.com/org/repo.git"

\* A source argument, split at its first "#" (splitHash).
SourceArg(base, hash) == [base |-> base, hash |-> hash]

\* normalizeCloneUrl on the bases of the model: owner/repo shorthand is
\* rewritten, an https URL ending in .git is kept.
NormalizeCloneUrl(base) ==
  IF base = RepoShorthand THEN "https://github.com/" \o base \o ".git" ELSE base

\* parseGitSource: the hash of the model's arguments holds a ref and no ":".
ParseGitSource(arg) ==
  [cloneUrl |-> NormalizeCloneUrl(arg.base),
   ref |-> IF arg.hash # "" THEN arg.hash ELSE Undefined]

ResolveThrew ==
  [ok |-> FALSE, type |-> "", url |-> "", ref |-> Undefined, digest |-> Undefined,
   commit |-> Undefined]

\* resolveGitSource and the git branch of add.ts resolveSource: clone, fetch
\* the ref and check out FETCH_HEAD, rev-parse HEAD.
ResolveSource(arg, up) ==
  LET parsed == ParseGitSource(arg)
      named == IF parsed.ref = Undefined THEN "main" ELSE parsed.ref
  IN IF ~up.online \/ parsed.cloneUrl # RepoUrl \/ named \notin Refs THEN ResolveThrew
     ELSE [ok |-> TRUE, type |-> "git", url |-> parsed.cloneUrl, ref |-> parsed.ref,
           digest |-> up.refs[named], commit |-> up.refs[named]]

(***************************************************************************)
(* commands/add.ts                                                         *)
(***************************************************************************)
\* discoverSourceSkills: the names of the skills of the checkout, ascending.
DiscoverSourceSkills(tree) ==
  SortedStrings({n \in DOMAIN tree : HasSkillFile(tree[n]) /\ ParsesAsSkill(tree[n], n)})

\* uniqueSorted
UniqueSorted(items) == SortedStrings(Range(items))

\* selectSkills, without a prompt: [ok, names]
SelectSkills(requested, available, yes) ==
  IF "*" \in Range(requested) THEN [ok |-> TRUE, names |-> available]
  ELSE IF Len(requested) > 0
  THEN IF \E i \in 1..Len(requested) : requested[i] \notin Range(available)
       THEN [ok |-> FALSE, names |-> <<>>]
       ELSE [ok |-> TRUE, names |-> SelectSeq(available, LAMBDA n : n \in Range(requested))]
  ELSE [ok |-> TRUE, names |-> available]

\* selectInstallMethod, without a prompt
SelectInstallMethod(copy, yes) == IF copy THEN "copy" ELSE "symlink"

\* The sourceId add.ts passes to installSkill (line 119).
SourceIdOf(resolved) ==
  resolved.type \o ":" \o resolved.url \o ":" \o Coalesce(resolved.ref, "") \o ":"
    \o Coalesce(resolved.digest, "")

Disk(dirs, stor) == [dirs |-> dirs, stor |-> stor]

\* installSkill as one step: [ok, method, disk]. symlinkWorks: symlinkFn does
\* not throw. The copy cannot replace a link that dangles (see TargetRename).
InstallSkill(disk, agent, sourceDir, skillName, sourceId, preferCopy, symlinkWorks) ==
  LET key == DigestSourceId(sourceId)
      found == disk.dirs[agent][skillName]
      stored == [disk.stor EXCEPT ![key][skillName] = DirEntry(sourceDir)]
  IN IF ~IsReplaceableInstallPath(found, skillName, disk.stor)
     THEN [ok |-> FALSE, method |-> "", disk |-> disk]
     ELSE IF ~preferCopy /\ symlinkWorks
     THEN [ok |-> TRUE, method |-> "symlink",
           disk |-> Disk([disk.dirs EXCEPT ![agent][skillName] = LinkEntry(key)], stored)]
     ELSE IF found.kind = "symlink" /\ ~Exists(found, skillName, stored)
     THEN [ok |-> FALSE, method |-> "", disk |-> Disk(disk.dirs, stored)]
     ELSE [ok |-> TRUE, method |-> "copy",
           disk |-> Disk([disk.dirs EXCEPT ![agent][skillName] = DirEntry(sourceDir)], stored)]

\* fs.writeFileSync(<installedPath>/.skillet-source.json), lines 126-136:
\* through a link the file lands in the storage directory.
WriteSidecar(disk, agent, skillName, sidecar) ==
  LET found == disk.dirs[agent][skillName]
  IN IF found.kind = "symlink"
     THEN Disk(disk.dirs,
               [disk.stor EXCEPT ![found.target][skillName] =
                  DirEntry([disk.stor[found.target][skillName].dir EXCEPT !.meta = sidecar])])
     ELSE Disk([disk.dirs EXCEPT ![agent][skillName] =
                  DirEntry([found.dir EXCEPT !.meta = sidecar])],
               disk.stor)

\* The install loop, lines 114-140, from job i on: jobs are <<agent, skill>>,
\* agents outermost. An exception of installSkill ends the loop and the command.
RECURSIVE InstallFrom(_, _, _, _, _, _, _)
InstallFrom(i, jobs, disk, resolved, tree, preferCopy, symlinkWorks) ==
  IF i > Len(jobs) THEN [ok |-> TRUE, disk |-> disk]
  ELSE LET agent == jobs[i][1]
           name == jobs[i][2]
       IN The({ IF ~installed.ok THEN [ok |-> FALSE, disk |-> installed.disk]
                ELSE The({ InstallFrom(i + 1, jobs, written, resolved, tree, preferCopy,
                                       symlinkWorks) :
                           written \in
                             {WriteSidecar(installed.disk, agent, name,
                                           SidecarJson(resolved.type, resolved.url, resolved.ref,
                                                       resolved.digest, installed.method))} }) :
                installed \in {InstallSkill(disk, agent, tree[name], name, SourceIdOf(resolved),
                                            preferCopy, symlinkWorks)} })

\* The jobs of the loop: for each agent, each selected skill.
InstallJobs(agents, names) ==
  [k \in 1..(Len(agents) * Len(names)) |->
     <<agents[((k - 1) \div Len(names)) + 1], names[((k - 1) % Len(names)) + 1]>>]

\* readdir lists every directory in the relative order `order`.
ListingIn(order, dirs) ==
  [a \in KNOWN_AGENTS |-> SelectSeq(order, LAMBDA n : dirs[a][n].kind # "none")]

AddArgs(source, skills, agents, yes, copy) ==
  [source |-> source, skills |-> skills, agents |-> agents, yes |-> yes, copy |-> copy]

ExitUncaught == 70

\* What a command did: its exit code, the lines it wrote to stderr (each
\* given by what it is about), and the disk and the lockfile it left.
Ran(exit, stderr, disk, lock) == [exit |-> exit, stderr |-> stderr, disk |-> disk, lock |-> lock]

\* runAddCommand with --agent given, from the outcome of resolveSource on:
\* [exit, stderr, disk, lock]. ExitUncaught stands for an exception that
\* leaves runAddCommand.
AddResolved(args, resolved, disk, lock, order, symlinkWorks) ==
  IF ~resolved.ok THEN Ran(1, <<"resolve">>, disk, lock)
  ELSE The({ IF available = <<>> THEN Ran(1, <<"no skills">>, disk, lock)
             ELSE IF ~selected.ok THEN Ran(1, <<"select">>, disk, lock)
             ELSE The({ IF ~done.ok THEN Ran(ExitUncaught, <<>>, done.disk, lock)
                        ELSE Ran(0, <<>>, done.disk,
                                 GenerateLockfile(done.disk.dirs,
                                                  ListingIn(order, done.disk.dirs),
                                                  done.disk.stor)) :
                        done \in
                          {InstallFrom(1, InstallJobs(UniqueSorted(args.agents), selected.names),
                                       disk, resolved, CommitTree(resolved.commit),
                                       SelectInstallMethod(args.copy, args.yes) = "copy",
                                       symlinkWorks)} }) :
             available \in {DiscoverSourceSkills(CommitTree(resolved.commit))},
             selected \in {SelectSkills(UniqueSorted(args.skills),
                                        DiscoverSourceSkills(CommitTree(resolved.commit)),
                                        args.yes)} })

\* runAddCommand against the upstream.
RunAddCommand(args, disk, lock, up, order, symlinkWorks) ==
  The({ AddResolved(args, resolved, disk, lock, order, symlinkWorks) :
        resolved \in {ResolveSource(args.source, up)} })

(***************************************************************************)
(* commands/check.ts and commands/update.ts, as whole commands             *)
(***************************************************************************)
\* collectCheckResults with the answers git gives for the state of the upstream.
RECURSIVE CollectFrom(_, _, _)
CollectFrom(i, sources, up) ==
  IF i > Len(sources) THEN <<>>
  ELSE ResultsOf(i, sources[i], CheckSource(sources[i], LsRemote(up, sources[i].ref)))
         \o CollectFrom(i + 1, sources, up)

CollectCheckResults(sources, up) == SortResults(CollectFrom(1, sources, up))

\* items.join(separator)
RECURSIVE Join(_, _)
Join(items, separator) ==
  IF items = <<>> THEN ""
  ELSE IF Len(items) = 1 THEN items[1]
  ELSE items[1] \o separator \o Join(Tail(items), separator)

\* The key update groups the outdated results by (lines 51-57).
UpdateKey(source) ==
  source.type \o "|" \o source.url \o "|" \o Coalesce(source.ref, "") \o "|"
    \o Coalesce(source.digest, "") \o "|" \o Join(SortedStrings(Range(source.agents)), ",")

\* outdatedBySource after the results from k on: a Map, in insertion order.
RECURSIVE OutdatedFrom(_, _, _)
OutdatedFrom(k, results, groups) ==
  IF k > Len(results) THEN groups
  ELSE IF results[k].status # "outdated" THEN OutdatedFrom(k + 1, results, groups)
  ELSE LET key == UpdateKey(results[k].source)
           at == {g \in 1..Len(groups) : groups[g].key = key}
       IN The({ OutdatedFrom(k + 1, results, grown) :
                grown \in
                  { IF at = {}
                    THEN Append(groups, [key |-> key, source |-> results[k].source,
                                         skills |-> <<results[k].skill>>])
                    ELSE LET g == CHOOSE x \in at : TRUE
                         IN IF results[k].skill \in Range(groups[g].skills) THEN groups
                            ELSE [groups EXCEPT ![g].skills = Append(@, results[k].skill)] } })

\* buildSourceArg and buildAddArgs: the joined lists are split again by parseAddArgs.
BuildAddArgs(source, skills) ==
  AddArgs(SourceArg(source.url, IF source.type = "git" /\ Truthy(source.ref) THEN source.ref ELSE ""),
          skills, source.agents, TRUE, FALSE)

\* The loop of runUpdateCommand over the groups from g on:
\* [failures, uncaught, disk, lock]
RECURSIVE UpdateFrom(_, _, _, _, _, _, _, _)
UpdateFrom(g, groups, failures, disk, lock, up, order, symlinkWorks) ==
  IF g > Len(groups)
  THEN [failures |-> failures, uncaught |-> FALSE, disk |-> disk, lock |-> lock]
  ELSE The({ IF ran.exit = ExitUncaught
             THEN [failures |-> failures, uncaught |-> TRUE, disk |-> ran.disk, lock |-> ran.lock]
             ELSE UpdateFrom(g + 1, groups, IF ran.exit # 0 THEN failures + 1 ELSE failures,
                             ran.disk, ran.lock, up, order, symlinkWorks) :
             ran \in {RunAddCommand(BuildAddArgs(groups[g].source, groups[g].skills),
                                    disk, lock, up, order, symlinkWorks)} })

\* runUpdateCommand: [exit, disk, lock]
RunUpdateCommand(disk, lock, up, order, symlinkWorks) ==
  IF lock = NoLockfile THEN Ran(1, <<"no lockfile">>, disk, lock)
  ELSE The({ Ran(IF after.uncaught THEN ExitUncaught
                 ELSE IF after.failures = 0 THEN 0 ELSE 1,
                 <<>>, after.disk, after.lock) :
             after \in
               { The({ UpdateFrom(1, groups, 0, disk, lock, up, order, symlinkWorks) :
                       groups \in {OutdatedFrom(1, CollectCheckResults(lock, up), <<>>)} }) } })

NoCommand == [cmd |-> "none", exit |-> 0, results |-> <<>>]
Command(cmd, exit, results) == [cmd |-> cmd, exit |-> exit, results |-> results]

NoScenario == [stage |-> "off", ref |-> "", agent |-> "", skills |-> {}]

UpstreamAtRest == [refs |-> [r \in Refs |-> CommitOne], online |-> TRUE]

CommandsAtRest ==
  /\ upstream = UpstreamAtRest
  /\ cli = NoCommand
  /\ scenario = NoScenario

\* No call of runUpdateCommand, of a resolver or of discoverSkills has been made.
\* before: the disk as the update's loop found it.
NoUpdateRun ==
  [pc |-> "idle", results |-> <<>>, answers |-> <<>>, groups |-> <<>>, index |-> 0,
   failures |-> 0, calls |-> <<>>, lines |-> <<>>, exit |-> 0, thrown |-> FALSE,
   before |-> <<>>]
NoOciRun ==
  [pc |-> "idle", source |-> "", manifest |-> [json |-> "none"], header |-> Undefined,
   blobsFetched |-> 0, archive |-> <<>>, written |-> FALSE, extracted |-> FALSE,
   error |-> "", resolvedDigest |-> Undefined, contentPath |-> <<>>]
NoHttpRun ==
  [pc |-> "idle", maxDownloadBytes |-> 0, maxEntries |-> 0, urlEnd |-> "", reads |-> 0,
   totalBytes |-> 0, chunks |-> <<>>, format |-> "", written |-> FALSE, archive |-> <<>>,
   listed |-> FALSE, extracted |-> FALSE, error |-> "", reason |-> ""]
NoDiscoverRun ==
  [pc |-> "idle", tree |-> <<>>, linked |-> FALSE, verbose |-> FALSE, skills |-> <<>>,
   warnings |-> <<>>, seenCanonicalPaths |-> {}, seenNames |-> {}, standardCandidateCount |-> 0,
   standardSkillCount |-> 0, agentCandidateCount |-> 0, usedFallback |-> FALSE]
NoParseRun == [pc |-> "idle", input |-> <<>>, parsed |-> <<>>]
NoAgentsRun == [pc |-> "idle", options |-> <<>>, prompted |-> 0, result |-> <<>>]
\* made: the agents whose skills directory exists without an entry; before:
\* the disk and the lockfile as the last call found them; ledger: the source
\* of the last successful add that installed each <<agent, skill>>.
NoAddRun ==
  [pc |-> "idle", count |-> 0, made |-> {}, args |-> <<>>, options |-> <<>>, resolved |-> <<>>,
   before |-> <<>>, exit |-> 0, stdout |-> <<>>, stderr |-> <<>>, prompted |-> {},
   available |-> <<>>, ledger |-> <<>>, succeeded |-> TRUE, copied |-> FALSE]

RunsAtRest ==
  /\ updateRun = NoUpdateRun
  /\ ociRun = NoOciRun
  /\ httpRun = NoHttpRun
  /\ discoverRun = NoDiscoverRun
  /\ parseRun = NoParseRun
  /\ agentsRun = NoAgentsRun
  /\ addRun = NoAddRun

(***************************************************************************)
(* SpecLock: generateLockfile over installed-skill states drawn from a     *)
(* bounded set.                                                            *)
(***************************************************************************)
MaxInstalled == 3

\* The agents whose directories hold skills in SpecLock.
LockAgents == {"claude", "codex"}

ExternalKey == "ext"

\* What may lie at <agent skills dir>/<name> before generateLockfile runs.
EntryChoices(name) ==
  << NoEntry, FileEntry, LinkEntry(ExternalKey),
    DirEntry(MkDir(Undefined, NoFiles, NoMeta)),
    DirEntry(MkDir(InvalidSkillMd, NoFiles, NoMeta)),
    DirEntry(MkDir(name, NoFiles, NoMeta)),
    DirEntry(MkDir(name, NoFiles, MalformedMeta)),
    DirEntry(MkDir(name, NoFiles, SidecarJson("git", "u", "|", Undefined, "copy"))),
    DirEntry(MkDir(name, NoFiles, SidecarJson("git", "u|", " ", Undefined, "copy"))),
    DirEntry(MkDir(name, NoFiles, SidecarJson("git", "u", "main", "|", "symlink"))),
    DirEntry(MkDir(name, NoFiles, SidecarJson("oci", "u", NotAString, "|", Undefined))) >>

\* The storage the links of SpecLock point into: alpha is there, beta is not.
LockStorage ==
  [k \in {ExternalKey} |->
     [n \in SkillNames |->
        IF n = "alpha"
        THEN DirEntry(MkDir(n, NoFiles, SidecarJson("oci", "u", Undefined, "|", "")))
        ELSE NoEntry]]

StaleLockfile ==
  <<[type |-> "git", url |-> "u", ref |-> "main", digest |-> Undefined,
     installMethod |-> "copy", skills |-> <<"beta">>, agents |-> <<"windsurf">>]>>

Installed(dirs) == {an \in KNOWN_AGENTS \X SkillNames : dirs[an[1]][an[2]].kind # "none"}

InitLock ==
  /\ \E placed \in [LockAgents -> [SkillNames -> 1..Len(EntryChoices("alpha"))]] :
       agentDirs =
         [a \in KNOWN_AGENTS |->
            [n \in SkillNames |->
               IF a \in LockAgents THEN EntryChoices(n)[placed[a][n]] ELSE NoEntry]]
  /\ Cardinality(Installed(agentDirs)) <= MaxInstalled
  /\ storage = LockStorage
  /\ lockfile \in {NoLockfile, StaleLockfile}
  /\ lockRuns = <<>>
  /\ InstallerAtRest
  /\ CheckerAtRest
  /\ RunsAtRest
  /\ CommandsAtRest

\* One call of generateLockfile: readdir lists each agent's directory in some
\* order; the document is written to the lockfile and returned.
GenerateLockfileRun ==
  \E l1 \in Enumerations({n \in SkillNames : agentDirs[AGENT_SKILL_DIRS[1]][n].kind # "none"}),
     l2 \in Enumerations({n \in SkillNames : agentDirs[AGENT_SKILL_DIRS[2]][n].kind # "none"}),
     l3 \in Enumerations({n \in SkillNames : agentDirs[AGENT_SKILL_DIRS[3]][n].kind # "none"}),
     l4 \in Enumerations({n \in SkillNames : agentDirs[AGENT_SKILL_DIRS[4]][n].kind # "none"}),
     l5 \in Enumerations({n \in SkillNames : agentDirs[AGENT_SKILL_DIRS[5]][n].kind # "none"}) :
    LET listings == [a \in KNOWN_AGENTS |->
                       CASE a = AGENT_SKILL_DIRS[1] -> l1
                         [] a = AGENT_SKILL_DIRS[2] -> l2
                         [] a = AGENT_SKILL_DIRS[3] -> l3
                         [] a = AGENT_SKILL_DIRS[4] -> l4
                         [] OTHER -> l5]
        document == GenerateLockfile(agentDirs, listings, storage)
    IN /\ lockfile' = document
       /\ lockRuns' = IF Len(lockRuns) < 2 THEN Append(lockRuns, document)
                      ELSE <<lockRuns[2], document>>
       /\ UNCHANGED <<agentDirs, storage>>

NextLock == GenerateLockfileRun /\ UNCHANGED <<instVars, checkVars, cliVars, runVars>>

SpecLock == InitLock /\ [][NextLock]_vars

\* Every way readdir may list the agent directories.
ListingChoices(dirs) ==
  LET present(i) == {n \in SkillNames : dirs[AGENT_SKILL_DIRS[i]][n].kind # "none"}
  IN { [a \in KNOWN_AGENTS |->
          CASE a = AGENT_SKILL_DIRS[1] -> l1
            [] a = AGENT_SKILL_DIRS[2] -> l2
            [] a = AGENT_SKILL_DIRS[3] -> l3
            [] a = AGENT_SKILL_DIRS[4] -> l4
            [] OTHER -> l5] :
       l1 \in Enumerations(present(1)), l2 \in Enumerations(present(2)),
       l3 \in Enumerations(present(3)), l4 \in Enumerations(present(4)),
       l5 \in Enumerations(present(5)) }

\* The installed skills generateLockfile accepts: <<agent, name>> whose path is
\* a directory holding a SKILL.md that parses.
Accepted(dirs, stor) ==
  {an \in KNOWN_AGENTS \X SkillNames :
     LET seen == Stat(dirs[an[1]][an[2]], an[2], stor)
     IN seen.kind = "dir" /\ HasSkillFile(seen.dir) /\ ParsesAsSkill(seen.dir, an[2])}

TupleOf(an, dirs, stor) == SourceOf(an[1], an[2], dirs[an[1]][an[2]], stor)

EntryTuple(e) ==
  [type |-> e.type, url |-> e.url, ref |-> e.ref, digest |-> e.digest,
   installMethod |-> e.installMethod]

Lists(e, an) == an[2] \in Range(e.skills) /\ an[1] \in Range(e.agents)

StrictlyAscending(seq) ==
  \A i \in 1..(Len(seq) - 1) : CollationRank(seq[i]) < CollationRank(seq[i + 1])

\* The lockfile on disk is the one generateLockfile made of the present disk state.
Generated == lockRuns # <<>>

\* No accepted skill has a tuple other than `tuple` that joins to the same key.
Uncontended(tuple) ==
  \A z \in Accepted(agentDirs, storage) :
    LET other == TupleOf(z, agentDirs, storage)
    IN GroupKey(other) = GroupKey(tuple) => other = tuple

(* C2: two installed skills (in the same or in different agent directories)
   with identical (type, url, ref, digest, installMethod) provenance are
   represented by exactly one lock source entry; its skills list holds both
   names, ascending and without duplicates, and, unless a skill with another
   tuple of the same key is installed, it carries their tuple. *)
C2_GroupedOnce ==
  Generated =>
    \A x, y \in Accepted(agentDirs, storage) :
      LET tuple == TupleOf(x, agentDirs, storage)
          at == {i \in 1..Len(lockfile) : GroupKey(EntryTuple(lockfile[i])) = GroupKey(tuple)}
      IN TupleOf(y, agentDirs, storage) = tuple =>
           /\ Cardinality(at) = 1
           /\ \A i \in at :
                /\ Lists(lockfile[i], x) /\ Lists(lockfile[i], y)
                /\ StrictlyAscending(lockfile[i].skills)
                /\ Cardinality({j \in 1..Len(lockfile) :
                                  EntryTuple(lockfile[j]) = EntryTuple(lockfile[i])}) = 1
                /\ Uncontended(tuple) => EntryTuple(lockfile[i]) = tuple

C2_Witness ==
  /\ Generated
  /\ \E x, y \in Accepted(agentDirs, storage) :
       /\ x[1] # y[1] /\ x[2] # y[2]
       /\ TupleOf(x, agentDirs, storage) = TupleOf(y, agentDirs, storage)
       /\ TupleOf(x, agentDirs, storage).type = "git"
  /\ Len(lockfile) = 2

(* C3: two installed skills whose provenance tuples differ in any component
   are placed in separate lock source entries, each under its own tuple. *)
C3_SeparateEntries ==
  Generated =>
    \A x, y \in Accepted(agentDirs, storage) :
      LET tx == TupleOf(x, agentDirs, storage)
          ty == TupleOf(y, agentDirs, storage)
      IN tx # ty =>
           \E i, j \in 1..Len(lockfile) :
             /\ i # j
             /\ EntryTuple(lockfile[i]) = tx /\ Lists(lockfile[i], x)
             /\ EntryTuple(lockfile[j]) = ty /\ Lists(lockfile[j], y)

\* left sorts strictly before right by (type, url, ref, digest, installMethod).
TupleBelow(left, right) ==
  LET l == <<left.type, left.url, Coalesce(left.ref, ""), Coalesce(left.digest, ""), left.installMethod>>
      r == <<right.type, right.url, Coalesce(right.ref, ""), Coalesce(right.digest, ""), right.installMethod>>
  IN \E k \in 1..5 :
       /\ \A m \in 1..(k - 1) : l[m] = r[m]
       /\ CollationRank(l[k]) < CollationRank(r[k])

(* C4: generateLockfile is deterministic and idempotent: over unchanged
   installed state every run returns the same document, whatever lockfile was
   there before and in whatever order the directories are listed; its entries
   ascend by (type, url, ref, digest, installMethod) and each entry's skills
   and agents ascend. *)
C4_Deterministic ==
  Generated =>
    /\ \A l \in ListingChoices(agentDirs) : GenerateLockfile(agentDirs, l, storage) = lockfile
    /\ \A i \in 1..Len(lockRuns) : lockRuns[i] = lockfile
    /\ \A i \in 1..(Len(lockfile) - 1) : TupleBelow(lockfile[i], lockfile[i + 1])
    /\ \A i \in 1..Len(lockfile) :
         StrictlyAscending(lockfile[i].skills) /\ StrictlyAscending(lockfile[i].agents)

C4_Witness ==
  /\ Len(lockRuns) = 2
  /\ Len(lockfile) = 2
  /\ \E a \in KNOWN_AGENTS : \A n \in SkillNames : <<a, n>> \in Accepted(agentDirs, storage)
  /\ \E i \in 1..Len(lockfile) : Len(lockfile[i].agents) = 2

(***************************************************************************)
(* SpecInstall: installSkill, one file-system call (and one file of a      *)
(* recursive copy or removal) at a time, for one skill of one agent.       *)
(***************************************************************************)
SourceChoices == {NoEntry, DirEntry(SourceFirst), DirEntry(SourceSecond)}

InitInstall ==
  /\ agentDirs = [a \in KNOWN_AGENTS |-> [n \in SkillNames |-> NoEntry]]
  /\ storage = [k \in {InstKey, OtherKey} |-> [n \in SkillNames |-> NoEntry]]
  /\ lockfile = NoLockfile
  /\ lockRuns = <<>>
  /\ sourceSkill \in SourceChoices
  /\ skillsDir = "none"
  /\ tempPaths = NoTemps
  /\ inst = NoCall
  /\ instResult = NoResult
  /\ CheckerAtRest
  /\ RunsAtRest
  /\ CommandsAtRest

\* add.ts lines 126-136: the caller writes the provenance sidecar under
\* installedPath, which for a link is a file in the storage directory.
WriteSourceMetadata ==
  /\ inst.pc = "returned"
  /\ instResult.status = "ok"
  /\ LET sidecar == SidecarJson("git", InstSourceId, Undefined, Undefined, instResult.method)
     IN IF installedPath.kind = "symlink"
        THEN /\ SetStorage(DirEntry([storagePath.dir EXCEPT !.meta = sidecar]))
             /\ UNCHANGED agentDirs
        ELSE /\ SetInstalled(DirEntry([installedPath.dir EXCEPT !.meta = sidecar]))
             /\ UNCHANGED storage
  /\ Goto("idle")
  /\ UNCHANGED <<outsideInstall, sourceSkill, skillsDir, tempPaths, instResult>>

\* The caller goes on without writing a sidecar (installSkill called directly,
\* or installSkill threw).
CallerContinues ==
  /\ inst.pc = "returned"
  /\ Goto("idle")
  /\ UNCHANGED <<fsVars, outsideInstall, sourceSkill, skillsDir, tempPaths, instResult>>

\* Between calls the source directory is replaced by another version, or removed.
ChangeSource ==
  /\ inst.pc = "idle"
  /\ \E next \in SourceChoices \ {sourceSkill} : sourceSkill' = next
  /\ UNCHANGED <<fsVars, outsideInstall, skillsDir, tempPaths, inst, instResult>>

\* Between calls a regular file is put where the skill is to be installed.
PlaceFile ==
  /\ inst.pc = "idle"
  /\ skillsDir # "file"
  /\ installedPath.kind # "file"
  /\ SetInstalled(FileEntry)
  /\ skillsDir' = "dir"
  /\ UNCHANGED <<storage, outsideInstall, sourceSkill, tempPaths, inst, instResult>>

\* Between calls the installed entry is deleted.
ClearInstalled ==
  /\ inst.pc = "idle"
  /\ installedPath.kind # "none"
  /\ SetInstalled(NoEntry)
  /\ UNCHANGED <<storage, outsideInstall, sourceSkill, skillsDir, tempPaths, inst, instResult>>

\* Between calls the skill of another source is installed by link under the same name.
InstallOther ==
  /\ inst.pc = "idle"
  /\ skillsDir # "file"
  /\ installedPath # LinkEntry(OtherKey)
  /\ SetInstalled(LinkEntry(OtherKey))
  /\ storage' = [storage EXCEPT ![OtherKey][InstSkill] = DirEntry(SourceFirst)]
  /\ skillsDir' = "dir"
  /\ UNCHANGED <<outsideInstall, sourceSkill, tempPaths, inst, instResult>>

\* Between calls a storage directory is deleted; a link to it dangles.
ClearStorage ==
  /\ inst.pc = "idle"
  /\ \E key \in DOMAIN storage :
       /\ storage[key][InstSkill].kind # "none"
       /\ storage' = [storage EXCEPT ![key][InstSkill] = NoEntry]
  /\ UNCHANGED <<agentDirs, outsideInstall, sourceSkill, skillsDir, tempPaths, inst, instResult>>

\* Between calls a regular file is put where the agent's skills directory is to be.
SkillsDirIsFile ==
  /\ inst.pc = "idle"
  /\ skillsDir = "none"
  /\ skillsDir' = "file"
  /\ UNCHANGED <<fsVars, outsideInstall, sourceSkill, tempPaths, inst, instResult>>

ClearSkillsDir ==
  /\ inst.pc = "idle"
  /\ skillsDir = "file"
  /\ skillsDir' = "none"
  /\ UNCHANGED <<fsVars, outsideInstall, sourceSkill, tempPaths, inst, instResult>>

NextInstall ==
  \/ InstallBegin
  \/ MkdirTarget
  \/ StoreCopy
  \/ StoreRemove
  \/ StoreRename
  \/ LinkCreate
  \/ LinkRemove
  \/ LinkRename
  \/ TargetCopy
  \/ TargetRemove
  \/ TargetRename
  \/ WriteSourceMetadata
  \/ CallerContinues
  \/ ChangeSource
  \/ PlaceFile
  \/ ClearInstalled
  \/ InstallOther
  \/ ClearStorage
  \/ SkillsDirIsFile
  \/ ClearSkillsDir

SpecInstall == InitInstall /\ [][NextInstall]_vars

\* The call in progress found a complete earlier installation of the skill
\* at installedPath: a copy, or a link to a storage directory that is there.
Reinstall ==
  \/ inst.priorTarget.kind = "dir"
  \/ inst.priorTarget = LinkEntry(InstKey) /\ inst.priorStorage.kind = "dir"

\* The call in progress passed the checks of lines 283-299.
PassedChecks == ~(instResult.status = "throw" /\ instResult.error = "InstallConflictError")

\* installedPath is a link to storagePath.
LinkedToStorage == installedPath = LinkEntry(InstKey)

(* C5: when installSkill has been re-run over an earlier installation of the
   same sourceId and target directory, whichever method installed it and
   whichever is used now, it returns, and storagePath and installedPath hold
   exactly the current source content: no file of the earlier content stays. *)
C5_FullReplacement ==
  (inst.pc = "returned" /\ Reinstall /\ sourceSkill.kind = "dir")
    => /\ instResult.status = "ok"
       /\ storagePath = DirEntry(sourceSkill.dir)
       /\ Stat(installedPath, InstSkill, storage) = DirEntry(sourceSkill.dir)
       /\ (instResult.method = "symlink" => LinkedToStorage)
       /\ (instResult.method = "copy" => installedPath.kind = "dir")

\* A copy with the sidecar and old.txt has been replaced by a link to the second version.
C5_Witness ==
  /\ inst.pc = "returned"
  /\ instResult = Returned("symlink")
  /\ inst.priorTarget.kind = "dir"
  /\ {"old.txt", SOURCE_METADATA_FILENAME} \subseteq PartsOf(inst.priorTarget.dir)
  /\ sourceSkill = DirEntry(SourceSecond)
  /\ storagePath = DirEntry(SourceSecond)

\* What installSkill leaves when it refuses: the conflict error with the
\* install path, and the disk as the call found it.
RefusedUnchanged ==
  /\ instResult = Thrown("InstallConflictError", InstalledPathName)
  /\ storagePath = inst.priorStorage
  /\ installedPath = inst.priorTarget
  /\ skillsDir = inst.priorSkillsDir
  /\ tempPaths = NoTemps

(* C6: when a regular file lies at installedPath and sourceSkillPath is a
   directory, installSkill throws InstallConflictError carrying installedPath,
   and the blocking file, the storage and the target skills directory are as
   the call found them. *)
C6_RefusesToClobber ==
  (inst.pc = "returned" /\ inst.priorTarget.kind = "file" /\ sourceSkill.kind = "dir")
    => RefusedUnchanged

\* A call refused over a blocking file while the storage held an earlier version.
C6_Witness ==
  /\ inst.pc = "returned"
  /\ inst.priorTarget.kind = "file"
  /\ sourceSkill = DirEntry(SourceSecond)
  /\ storagePath.kind = "dir"
  /\ storagePath.dir.skillmd = InstSkill
  /\ instResult.status = "throw"

(* C6 as the specification states it: whenever a regular file lies at
   installedPath, the error carries that path. *)
C6_AsStated ==
  (inst.pc = "returned" /\ inst.priorTarget.kind = "file") => RefusedUnchanged

\* The storage directory is what is left of the content the call found.
RestOfPrior ==
  /\ inst.priorStorage.kind = "dir"
  /\ storagePath.kind = "dir"
  /\ storagePath.dir = Restrict(inst.priorStorage.dir, PartsOf(storagePath.dir))

(* C7: at every step of installSkill an observer of storagePath sees nothing,
   the content the call found or what is left of it while it is removed, or
   the complete new content; never a directory that is being written. *)
C7_NeverPartlyWritten ==
  inst.pc # "idle"
    => \/ storagePath = NoEntry
       \/ RestOfPrior
       \/ storagePath = DirEntry(sourceSkill.dir)

\* The second version has replaced the first in storage, the install into the target is to come.
C7_Witness ==
  /\ inst.pc \in {"linkCreate", "targetCopy"}
  /\ inst.priorStorage.kind = "dir"
  /\ "old.txt" \in PartsOf(inst.priorStorage.dir)
  /\ storagePath = DirEntry(SourceSecond)

(* C7 as the specification states it: the observer sees nothing, the complete
   prior content or the complete new content. *)
C7_AsStated ==
  inst.pc # "idle"
    => \/ storagePath = NoEntry
       \/ storagePath = inst.priorStorage
       \/ storagePath = DirEntry(sourceSkill.dir)

(* C8: a call that passed the checks returns; it returns "symlink", with
   installedPath a link to storagePath, exactly when preferCopy is not set and
   no step of the link swap failed, and otherwise "copy", with installedPath a
   real directory holding the storage content; no temp link is left. *)
C8_SymlinkFallback ==
  (inst.pc = "returned" /\ PassedChecks)
    => /\ instResult.status = "ok"
       /\ instResult.method = "symlink" <=> (~inst.preferCopy /\ inst.fault = "none")
       /\ instResult.method = "symlink" => LinkedToStorage
       /\ instResult.method = "copy"
            => installedPath.kind = "dir" /\ installedPath.dir = storagePath.dir
       /\ tempPaths.link = NoEntry

\* The call found at installedPath a link into a storage directory, not its
\* own, that is gone.
FoundDangling ==
  /\ inst.priorTarget.kind = "symlink"
  /\ inst.priorTarget.target # InstKey
  /\ ~Exists(inst.priorTarget, InstSkill, storage)

\* C8 for the calls that do not find such a link.
C8_UnlessDangling == FoundDangling \/ C8_SymlinkFallback

(***************************************************************************)
(* SpecCheck: collectCheckResults over lockfiles drawn from a bounded set, *)
(* one source at a time, with every answer the upstream may give.          *)
(***************************************************************************)
MaxSources == 2

CheckEntry(type, url, digest, skills) ==
  [type |-> type, url |-> url, ref |-> IF type = "git" THEN "main" ELSE Undefined,
   digest |-> digest, installMethod |-> "symlink", skills |-> skills, agents |-> <<"codex">>]

\* The lock source entries of SpecCheck.
CheckEntries ==
  { CheckEntry("git", "u", Undefined, <<"alpha">>),
    CheckEntry("git", "u", "", <<"alpha">>),
    CheckEntry("git", "u", CommitOne, <<"alpha", "beta">>),
    CheckEntry("oci", OciTagged, Undefined, <<"alpha">>),
    CheckEntry("oci", OciTagged, ManifestOne, <<"beta">>),
    CheckEntry("oci", OciPinned, Undefined, <<"alpha">>),
    CheckEntry("oci", OciPinned, ManifestOne, <<"alpha">>),
    CheckEntry("oci", OciPinned, ManifestTwo, <<"alpha">>),
    CheckEntry("oci", OciNoRepository, ManifestOne, <<"alpha">>),
    CheckEntry("local", "file:///cwd/skills", Undefined, <<"beta", "alpha">>) }

\* The answers the upstream of a source may give.
Answers(source) ==
  CASE source.type = "git" ->
         {GitFailed, GitPrinted(<<>>), GitPrinted(<<ShortId>>), GitPrinted(<<"", CommitOne>>),
          GitPrinted(<<CommitTwo, CommitOne>>)}
    [] source.type = "oci" ->
         {OciFailed, OciManifest(ManifestOne, "m"), OciManifest(ManifestTwo, "m"),
          OciManifest(Undefined, "m")}
    [] OTHER -> {NoAnswer}

InitCheck ==
  /\ agentDirs = [a \in KNOWN_AGENTS |-> [n \in SkillNames |-> NoEntry]]
  /\ storage = [k \in {} |-> NoEntry]
  /\ \E count \in 0..MaxSources : lockfile \in [1..count -> CheckEntries]
  /\ lockRuns = <<>>
  /\ InstallerAtRest
  /\ CheckerAtRest
  /\ RunsAtRest
  /\ CommandsAtRest

\* collectCheckResults(lock.sources) is called.
CollectBegin ==
  /\ checkRun.pc \in {"idle", "done"}
  /\ checkRun' = [NoCheckRun EXCEPT !.pc = "loop", !.sources = lockfile, !.index = 1]
  /\ UNCHANGED <<fsVars, lockVars, instVars, cliVars, runVars>>

\* One turn of the loop: await checkSource(source), then one result per skill.
\* An exception of checkSource would leave collectCheckResults with it.
CollectSource ==
  /\ checkRun.pc = "loop"
  /\ checkRun.index <= Len(checkRun.sources)
  /\ LET source == checkRun.sources[checkRun.index]
     IN \E answer \in Answers(source) :
          LET checked == CheckSource(source, answer)
          IN checkRun' =
               IF checked.status = "<thrown>"
               THEN [checkRun EXCEPT !.pc = "done", !.thrown = TRUE, !.results = <<>>,
                                     !.answers = Append(@, answer)]
               ELSE [checkRun EXCEPT !.index = @ + 1,
                                     !.results = @ \o ResultsOf(checkRun.index, source, checked),
                                     !.answers = Append(@, answer)]
  /\ UNCHANGED <<fsVars, lockVars, instVars, cliVars, runVars>>

\* The loop is over: the results are sorted by skill and returned.
CollectReturn ==
  /\ checkRun.pc = "loop"
  /\ checkRun.index > Len(checkRun.sources)
  /\ checkRun' = [checkRun EXCEPT !.pc = "done", !.results = SortResults(@)]
  /\ UNCHANGED <<fsVars, lockVars, instVars, cliVars, runVars>>

NextCheck ==
  \/ CollectBegin
  \/ CollectSource
  \/ CollectReturn

SpecCheck == InitCheck /\ [][NextCheck]_vars

\* The query checkSource makes for the source, given the upstream's answer.
QueryOf(source, answer) ==
  IF source.type = "git" THEN GetLatestGitDigest(answer)
  ELSE GetLatestOciDigest(source.url, answer)

Supported(source) == source.type \in {"git", "oci"}

QueryFails(source, answer) == Supported(source) /\ ~QueryOf(source, answer).ok

QuerySucceeds(source, answer) == Supported(source) /\ QueryOf(source, answer).ok

\* A digest (a non-empty string) is recorded in the entry.
DigestRecorded(source) == source.digest \notin {Undefined, ""}

DiffersUpstream(source, answer) ==
  /\ QuerySucceeds(source, answer)
  /\ DigestRecorded(source)
  /\ source.digest # QueryOf(source, answer).digest

\* A digest-pinned OCI reference whose recorded digest is the pinned one.
PinnedAsRecorded(source) ==
  /\ source.type = "oci"
  /\ ParseOciReference(source.url).ok
  /\ ParseOciReference(source.url).referenceType = "digest"
  /\ source.digest = ParseOciReference(source.url).reference

\* The status the rule of C9 gives a source.
StatusRule(source, answer) ==
  IF ~Supported(source) THEN "unsupported"
  ELSE IF QueryFails(source, answer) THEN "error"
  ELSE IF DiffersUpstream(source, answer) THEN "outdated"
  ELSE "up-to-date"

(* C9: every result of a check carries the status of the rule: unsupported
   iff the type is neither git nor oci, error iff the upstream query fails,
   outdated iff the query succeeded and a recorded digest differs from the
   upstream one, up-to-date otherwise; an entry without a recorded digest is
   never outdated, and a pinned OCI reference recorded with its pinned digest
   is up-to-date whatever the registry answers. *)
C9_StatusRule ==
  \A k \in 1..Len(checkRun.results) :
    LET result == checkRun.results[k]
        source == checkRun.sources[result.entry]
        answer == checkRun.answers[result.entry]
    IN /\ result.status = "unsupported" <=> ~Supported(source)
       /\ result.status = "error" <=> QueryFails(source, answer)
       /\ result.status = "outdated" <=> DiffersUpstream(source, answer)
       /\ result.status = "up-to-date"
            <=> (Supported(source) /\ ~QueryFails(source, answer) /\ ~DiffersUpstream(source, answer))
       /\ ~DigestRecorded(source) => result.status # "outdated"
       /\ PinnedAsRecorded(source) => result.status = "up-to-date"

\* A check returned an outdated git source whose upstream printed another
\* commit, and a pinned reference that is up-to-date though the registry failed.
C9_Witness ==
  /\ checkRun.pc = "done"
  /\ \E i, j \in 1..Len(checkRun.results) :
       /\ checkRun.results[i].status = "outdated"
       /\ checkRun.results[i].source.type = "git"
       /\ checkRun.results[j].status = "up-to-date"
       /\ PinnedAsRecorded(checkRun.results[j].source)
       /\ checkRun.answers[checkRun.results[j].entry] = OciFailed

ResultsFor(entry, skill) ==
  {k \in 1..Len(checkRun.results) :
     checkRun.results[k].entry = entry /\ checkRun.results[k].skill = skill}

RECURSIVE SkillCount(_, _)
SkillCount(sources, upTo) ==
  IF upTo = 0 THEN 0 ELSE Len(sources[upTo].skills) + SkillCount(sources, upTo - 1)

(* C10: collectCheckResults returns without throwing whatever queries fail,
   with exactly one result for every skill listed in every source entry and
   no other, and the status of a source whose query succeeds is the one its
   own entry and its own upstream answer determine, whatever the other
   sources' queries did. *)
C10_Isolation ==
  checkRun.pc = "done"
    => /\ ~checkRun.thrown
       /\ Len(checkRun.results) = SkillCount(checkRun.sources, Len(checkRun.sources))
       /\ \A i \in 1..Len(checkRun.sources) :
            \A k \in 1..Len(checkRun.sources[i].skills) :
              Cardinality(ResultsFor(i, checkRun.sources[i].skills[k])) = 1
       /\ \A k \in 1..Len(checkRun.results) :
            LET result == checkRun.results[k]
                source == checkRun.sources[result.entry]
                answer == checkRun.answers[result.entry]
            IN /\ result.source = source
               /\ QuerySucceeds(source, answer) => result.status = StatusRule(source, answer)

\* The first source's query failed, the second's succeeded and it is outdated.
C10_Witness ==
  /\ checkRun.pc = "done"
  /\ Len(checkRun.sources) = 2
  /\ QueryFails(checkRun.sources[1], checkRun.answers[1])
  /\ QuerySucceeds(checkRun.sources[2], checkRun.answers[2])
  /\ Len(checkRun.sources[2].skills) = 2
  /\ \A k \in ResultsFor(2, "beta") : checkRun.results[k].status = "outdated"
  /\ \A k \in ResultsFor(1, "alpha") : checkRun.results[k].status = "error"
  /\ Len(checkRun.results) = 3

(***************************************************************************)
(* Spec: the commands add, check and update run one after another in a     *)
(* project, against an upstream repository whose refs move.                *)
(***************************************************************************)
\* The agents the commands of Spec install to.
CliAgents == {"claude", "codex"}

\* The storage directories the sources of Spec are kept in.
CliKeys ==
  {DigestSourceId("git:" \o RepoUrl \o ":" \o ref \o ":" \o commit) : ref \in Refs, commit \in Commits}

\* The relative orders in which readdir may list the skills of a directory.
ReaddirOrders == Enumerations(SkillNames)


Init ==
  /\ agentDirs = [a \in KNOWN_AGENTS |-> [n \in SkillNames |-> NoEntry]]
  /\ storage = [k \in CliKeys |-> [n \in SkillNames |-> NoEntry]]
  /\ lockfile = NoLockfile
  /\ lockRuns = <<>>
  /\ InstallerAtRest
  /\ CheckerAtRest
  /\ RunsAtRest
  /\ upstream \in [refs : [Refs -> Commits], online : {TRUE}]
  /\ cli = NoCommand
  /\ scenario = NoScenario

\* The skills installed under an agent.
SkillsOf(dirs, agent) == {n \in SkillNames : dirs[agent][n].kind # "none"}

\* skillet add org/repo#<ref> --agent <agent> -y, where symlinks can be made
AddCmd ==
  \E ref \in Refs, agent \in CliAgents, copy \in {FALSE}, order \in ReaddirOrders :
    \E ran \in {RunAddCommand(AddArgs(SourceArg(RepoShorthand, ref), <<>>, <<agent>>, TRUE, copy),
                               Disk(agentDirs, storage), lockfile, upstream, order, TRUE)} :
       /\ agentDirs' = ran.disk.dirs
       /\ storage' = ran.disk.stor
       /\ lockfile' = ran.lock
       /\ cli' = Command("add", ran.exit, <<>>)
       /\ scenario' =
            IF Installed(agentDirs) = {} /\ ~copy /\ ran.exit = 0
            THEN [stage |-> "added", ref |-> ref, agent |-> agent,
                  skills |-> SkillsOf(ran.disk.dirs, agent)]
            ELSE NoScenario
       /\ UNCHANGED <<lockRuns, instVars, checkVars, upstream, runVars>>

\* skillet check
CheckCmd ==
  /\ \E ran \in {IF lockfile = NoLockfile THEN Command("check", 1, <<>>)
                  ELSE Command("check", 0, CollectCheckResults(lockfile, upstream))} : cli' = ran
  /\ scenario' =
       CASE scenario.stage = "added" -> [scenario EXCEPT !.stage = "checked after add"]
         [] scenario.stage = "moved" -> [scenario EXCEPT !.stage = "checked after push"]
         [] scenario.stage = "updated" -> [scenario EXCEPT !.stage = "checked after update"]
         [] OTHER -> NoScenario
  /\ UNCHANGED <<fsVars, lockVars, instVars, checkVars, upstream, runVars>>

\* skillet update -y, where symlinks can be made
UpdateCmd ==
  \E order \in ReaddirOrders :
    \E ran \in {RunUpdateCommand(Disk(agentDirs, storage), lockfile, upstream, order, TRUE)} :
       /\ agentDirs' = ran.disk.dirs
       /\ storage' = ran.disk.stor
       /\ lockfile' = ran.lock
       /\ cli' = Command("update", ran.exit, <<>>)
       /\ scenario' =
            IF scenario.stage \in {"moved", "checked after push"}
            THEN [scenario EXCEPT !.stage = "updated"]
            ELSE NoScenario
       /\ UNCHANGED <<lockRuns, instVars, checkVars, upstream, runVars>>

\* A ref of the upstream repository is moved to another commit.
Push ==
  \E ref \in Refs, commit \in Commits :
    /\ commit # upstream.refs[ref]
    /\ upstream' = [upstream EXCEPT !.refs[ref] = commit]
    /\ scenario' =
         IF ref = scenario.ref /\ scenario.stage \in {"added", "checked after add"}
         THEN [scenario EXCEPT !.stage = "moved"]
         ELSE NoScenario
    /\ cli' = NoCommand
    /\ UNCHANGED <<fsVars, lockVars, instVars, checkVars, runVars>>

\* The upstream repository becomes unreachable, or reachable again.
Network ==
  /\ upstream' = [upstream EXCEPT !.online = ~@]
  /\ scenario' = NoScenario
  /\ cli' = NoCommand
  /\ UNCHANGED <<fsVars, lockVars, instVars, checkVars, runVars>>

Next ==
  \/ AddCmd
  \/ CheckCmd
  \/ UpdateCmd
  \/ Push
  \/ Network

Spec == Init /\ [][Next]_vars

\* Every skill the add of the scenario installed has a result, and every
\* result has the status.
AllReported(status) ==
  /\ \A n \in scenario.skills : \E k \in 1..Len(cli.results) : cli.results[k].skill = n
  /\ \A k \in 1..Len(cli.results) : cli.results[k].status = status

\* The commit the ref of the scenario points to.
ScenarioCommit == upstream.refs[scenario.ref]

\* The lockfile records the commit: it has entries, all with that digest.
LockDigestIs(commit) ==
  /\ lockfile # NoLockfile
  /\ lockfile # <<>>
  /\ \A i \in 1..Len(lockfile) : lockfile[i].digest = commit

\* What is installed for the agent of the scenario is the content of the commit.
InstalledContentIs(commit) ==
  \A n \in scenario.skills :
    /\ n \in DOMAIN CommitTree(commit)
    /\ LET seen == Stat(agentDirs[scenario.agent][n], n, storage)
       IN /\ seen.kind = "dir"
          /\ seen.dir.skillmd = CommitTree(commit)[n].skillmd
          /\ seen.dir.files = CommitTree(commit)[n].files

(* C1: after `add org/repo#<ref> --agent A -y` into a project without skills,
   a check run next reports every skill up-to-date; after the ref has moved to
   another commit a check reports them outdated; `update -y` then exits 0, the
   lockfile records the new commit, the installed content is the new commit's,
   and a check run next reports up-to-date. *)
C1_EndToEnd ==
  /\ scenario.stage = "checked after add" => AllReported("up-to-date")
  /\ scenario.stage = "checked after push" => AllReported("outdated")
  /\ scenario.stage = "updated"
       => /\ cli.exit = 0
          /\ LockDigestIs(ScenarioCommit)
          /\ InstalledContentIs(ScenarioCommit)
  /\ scenario.stage = "checked after update" => AllReported("up-to-date")

\* C1 for a ref that is a branch, moved to a commit that still holds every
\* skill the add installed.
C1_BranchKeepingSkills ==
  \/ scenario.stage = "off"
  \/ scenario.ref \in AnnotatedTags
  \/ ~(scenario.skills \subseteq DOMAIN CommitTree(ScenarioCommit))
  \/ C1_EndToEnd

\* The scenario has been run to its end on a branch.
C1_RunToEnd ==
  /\ scenario.stage = "checked after update"
  /\ scenario.ref \notin AnnotatedTags
  /\ AllReported("up-to-date")
  /\ LockDigestIs(CommitTwo)

(***************************************************************************)
(* SpecUpdate: runUpdateCommand, one add invocation at a time, in a        *)
(* project whose lockfile was generated from its installed skills, with    *)
(* every answer the upstream may give to check and to add.                 *)
(***************************************************************************)
MaxUpdated == 2

\* A clone URL and a branch name that hold a "|".
PipedUrl == RepoUrl \o "|x.git"
PipedRef == "x.git|main"

\* The agents whose directories hold skills in SpecUpdate.
UpdateAgents == {"claude", "codex"}

\* The sidecars of the skills installed before the update: written by an add
\* of a git source (the last one without a digest), or none.
Provenances ==
  << SidecarJson("git", RepoUrl, "main", CommitTwo, "symlink"),
     SidecarJson("git", RepoUrl, "main", CommitTwo, "copy"),
     SidecarJson("git", RepoUrl, PipedRef, CommitTwo, "symlink"),
     SidecarJson("git", PipedUrl, "main", CommitTwo, "copy"),
     SidecarJson("git", RepoUrl, "main", Undefined, "copy"),
     NoMeta >>

\* The storage directories of the sources of SpecUpdate.
UpdateKeys ==
  {DigestSourceId(SourceIdOf([type |-> "git", url |-> url, ref |-> ref, digest |-> commit])) :
     url \in {RepoUrl, PipedUrl}, ref \in {"main", PipedRef}, commit \in Commits}

\* The directory of skill `name` as installed with the sidecar.
InstalledDir(name, meta) == [CommitTree(CommitTwo)[name] EXCEPT !.meta = meta]

\* What lies at <agent skills dir>/<name> after the install the sidecar records.
InstalledEntry(name, meta) ==
  IF meta.installMethod = "symlink"
  THEN LinkEntry(DigestSourceId(SourceIdOf(meta)))
  ELSE DirEntry(InstalledDir(name, meta))

\* The agent directories and the storage after the installs `placed` names:
\* placed[<<agent, name>>] is an index into Provenances, or 0 for none.
PlacedDirs(placed) ==
  [a \in KNOWN_AGENTS |->
     [n \in SkillNames |->
        IF a \in UpdateAgents /\ placed[<<a, n>>] # 0
        THEN InstalledEntry(n, Provenances[placed[<<a, n>>]])
        ELSE NoEntry]]

PlacedStorage(placed) ==
  [k \in UpdateKeys |->
     [n \in SkillNames |->
        LET linked == {i \in 1..Len(Provenances) :
                         /\ \E a \in UpdateAgents : placed[<<a, n>>] = i
                         /\ Provenances[i].installMethod = "symlink"
                         /\ DigestSourceId(SourceIdOf(Provenances[i])) = k}
        IN IF linked = {} THEN NoEntry
           ELSE DirEntry(InstalledDir(n, Provenances[CHOOSE i \in linked : TRUE]))]]

\* The install path, if any, at which a regular file has replaced the skill.
Unbroken == <<"", "">>

BreakAt(dirs, broken) ==
  IF broken = Unbroken THEN dirs ELSE [dirs EXCEPT ![broken[1]][broken[2]] = FileEntry]

InitUpdate ==
  /\ \E placed \in [UpdateAgents \X SkillNames -> 0..Len(Provenances)], order \in ReaddirOrders :
       /\ Cardinality({an \in DOMAIN placed : placed[an] # 0}) <= MaxUpdated
       /\ \E broken \in {Unbroken} \cup {an \in DOMAIN placed : placed[an] # 0} :
            agentDirs = BreakAt(PlacedDirs(placed), broken)
       /\ storage = PlacedStorage(placed)
       /\ lockfile \in {NoLockfile,
                        GenerateLockfile(PlacedDirs(placed), ListingIn(order, PlacedDirs(placed)),
                                         PlacedStorage(placed))}
  /\ lockRuns = <<>>
  /\ InstallerAtRest
  /\ CheckerAtRest
  /\ CommandsAtRest
  /\ RunsAtRest

\* The answers the upstream may give update's check of a source.
UpdateAnswers(source) ==
  IF source.type = "git"
  THEN {GitFailed, GitPrinted(<<CommitOne>>), GitPrinted(<<CommitTwo>>)}
  ELSE {NoAnswer}

AnswerChoices(sources) ==
  {answers \in [1..Len(sources) -> {GitFailed, GitPrinted(<<CommitOne>>), GitPrinted(<<CommitTwo>>),
                                    NoAnswer}] :
     \A i \in 1..Len(sources) : answers[i] \in UpdateAnswers(sources[i])}

\* collectCheckResults, source i answered by answers[i].
RECURSIVE CollectAnswered(_, _, _)
CollectAnswered(i, sources, answers) ==
  IF i > Len(sources) THEN <<>>
  ELSE ResultsOf(i, sources[i], CheckSource(sources[i], answers[i]))
         \o CollectAnswered(i + 1, sources, answers)

\* resolveSource finding the ref at the commit.
ResolvedAt(arg, commit) ==
  [ok |-> TRUE, type |-> "git", url |-> ParseGitSource(arg).cloneUrl, ref |-> ParseGitSource(arg).ref,
   digest |-> commit, commit |-> commit]

\* What resolveSource may do for the source argument: throw, or find a commit.
Resolutions(arg) == {ResolveThrew} \cup {ResolvedAt(arg, commit) : commit \in Commits}

\* A line update writes: `${skill}\t${word}\t${url}` on a stream.
Line(stream, skill, word, url) == [stream |-> stream, skill |-> skill, word |-> word, url |-> url]

LinesFor(skills, stream, word, url) == [k \in 1..Len(skills) |-> Line(stream, skills[k], word, url)]

outsideUpdate ==
  <<lockRuns, instVars, checkVars, cliVars, ociRun, httpRun, discoverRun, parseRun, agentsRun, addRun>>

\* runUpdateCommand up to its loop: the lockfile is loaded, the sources are
\* checked and the outdated results are grouped.
UpdateBegin ==
  /\ updateRun.pc = "idle"
  /\ IF lockfile = NoLockfile
     THEN updateRun' = [updateRun EXCEPT !.pc = "done", !.exit = 1,
                                         !.lines = <<Line("stderr", "", "No lockfile found.", "")>>]
     ELSE \E answers \in AnswerChoices(lockfile) :
            \E results \in {SortResults(CollectAnswered(1, lockfile, answers))} :
              \E groups \in {OutdatedFrom(1, results, <<>>)} :
                updateRun' =
                  IF groups = <<>>
                  THEN [updateRun EXCEPT !.pc = "done", !.exit = 0, !.results = results,
                                         !.answers = answers,
                                         !.lines = <<Line("stdout", "", "No updates available.", "")>>]
                  ELSE [updateRun EXCEPT !.pc = "loop", !.results = results, !.answers = answers,
                                         !.groups = groups, !.index = 1,
                                         !.before = Disk(agentDirs, storage)]
  /\ UNCHANGED <<fsVars, lockfile, outsideUpdate>>

\* One turn of the loop: await runAddCommand(addArgs), then a line per skill.
\* An exception of runAddCommand leaves runUpdateCommand with it.
UpdateGroup ==
  /\ updateRun.pc = "loop"
  /\ updateRun.index <= Len(updateRun.groups)
  /\ LET group == updateRun.groups[updateRun.index]
         addArgs == BuildAddArgs(group.source, group.skills)
     IN \E resolved \in Resolutions(addArgs.source), order \in ReaddirOrders :
          \E ran \in {AddResolved(addArgs, resolved, Disk(agentDirs, storage), lockfile, order, TRUE)} :
            /\ agentDirs' = ran.disk.dirs
            /\ storage' = ran.disk.stor
            /\ lockfile' = ran.lock
            /\ updateRun' =
                 IF ran.exit = ExitUncaught
                 THEN [updateRun EXCEPT !.pc = "done", !.thrown = TRUE,
                                        !.calls = Append(@, [args |-> addArgs, exit |-> ran.exit,
                                                             stderr |-> ran.stderr])]
                 ELSE [updateRun EXCEPT
                         !.index = @ + 1,
                         !.failures = IF ran.exit # 0 THEN @ + 1 ELSE @,
                         !.calls = Append(@, [args |-> addArgs, exit |-> ran.exit,
                                              stderr |-> ran.stderr]),
                         !.lines = @ \o (IF ran.exit # 0
                                         THEN LinesFor(group.skills, "stderr", "failed", group.source.url)
                                         ELSE LinesFor(group.skills, "stdout", "updated", group.source.url))]
  /\ UNCHANGED outsideUpdate

\* The loop is over: return failures === 0 ? 0 : 1.
UpdateReturn ==
  /\ updateRun.pc = "loop"
  /\ updateRun.index > Len(updateRun.groups)
  /\ updateRun' = [updateRun EXCEPT !.pc = "done", !.exit = IF updateRun.failures = 0 THEN 0 ELSE 1]
  /\ UNCHANGED <<fsVars, lockfile, outsideUpdate>>

NextUpdate ==
  \/ UpdateBegin
  \/ UpdateGroup
  \/ UpdateReturn

SpecUpdate == InitUpdate /\ [][NextUpdate]_vars

\* The results of update's check that are outdated.
OutdatedResults ==
  {k \in 1..Len(updateRun.results) : updateRun.results[k].status = "outdated"}

\* The source tuple of a lock entry, as update keeps it: type, url, ref, digest
\* and the agents the source is installed for.
SourceTuple(source) ==
  <<source.type, source.url, Coalesce(source.ref, ""), Coalesce(source.digest, ""), source.agents>>

OutdatedTuples == {SourceTuple(updateRun.results[k].source) : k \in OutdatedResults}

OutdatedSkillsOf(tuple) ==
  {updateRun.results[k].skill :
     k \in {r \in OutdatedResults : SourceTuple(updateRun.results[r].source) = tuple}}

\* The add invocations made for the source: its url and ref, for its agents.
CallsFor(tuple) ==
  {c \in 1..Len(updateRun.calls) :
     /\ updateRun.calls[c].args.source = SourceArg(tuple[2], tuple[3])
     /\ updateRun.calls[c].args.agents = tuple[5]}

OncePerSource ==
  (updateRun.pc = "done" /\ ~updateRun.thrown)
    => /\ Len(updateRun.calls) = Cardinality(OutdatedTuples)
       /\ \A tuple \in OutdatedTuples :
            \E c \in 1..Len(updateRun.calls) :
              /\ CallsFor(tuple) = {c}
              /\ Range(updateRun.calls[c].args.skills) = OutdatedSkillsOf(tuple)
              /\ Len(updateRun.calls[c].args.skills) = Cardinality(OutdatedSkillsOf(tuple))
       /\ \A c \in 1..Len(updateRun.calls) : \E tuple \in OutdatedTuples : c \in CallsFor(tuple)

(* C11: when update returns, it has made exactly one add invocation for every
   distinct source tuple among the outdated results of its check, passing it
   every outdated skill of that source once, and no add invocation for a
   source that is up-to-date, unsupported or in error. *)
C11_OncePerSource == OncePerSource

\* A field of a lock entry holds a "|".
Piped(source) == source.url = PipedUrl \/ source.ref = PipedRef

\* C11 for the lockfiles in which no outdated source holds a "|".
C11_UnlessPiped ==
  (\E k \in OutdatedResults : Piped(updateRun.results[k].source)) \/ OncePerSource

\* An update that re-installed the two outdated skills of one source with one
\* add invocation.
C11_OneCallTwoSkills ==
  /\ updateRun.pc = "done"
  /\ ~updateRun.thrown
  /\ Len(updateRun.calls) = 1
  /\ Len(updateRun.calls[1].args.skills) = 2
  /\ Cardinality(OutdatedTuples) = 1

\* The lines the groups up to `upTo` are to be reported with: a line per skill,
\* `updated` on stdout when the add invocation of the group returned 0, else
\* `failed` on stderr.
RECURSIVE ReportedLines(_)
ReportedLines(upTo) ==
  IF upTo = 0 THEN <<>>
  ELSE LET group == updateRun.groups[upTo]
       IN ReportedLines(upTo - 1)
            \o (IF updateRun.calls[upTo].exit = 0
                THEN LinesFor(group.skills, "stdout", "updated", group.source.url)
                ELSE LinesFor(group.skills, "stderr", "failed", group.source.url))

PerGroup ==
  /\ ~updateRun.thrown
  /\ Len(updateRun.calls) = Len(updateRun.groups)
  /\ \A g \in 1..Len(updateRun.groups) :
       updateRun.calls[g].args = BuildAddArgs(updateRun.groups[g].source, updateRun.groups[g].skills)
  /\ updateRun.lines = ReportedLines(Len(updateRun.groups))
  /\ updateRun.exit = 0 <=> \A g \in 1..Len(updateRun.calls) : updateRun.calls[g].exit = 0

(* C12: an update that found outdated groups ends by returning, after an add
   invocation for every group whatever the earlier ones did, with every skill
   of a group whose invocation succeeded reported `updated` and every skill of
   a group whose invocation failed reported `failed`, and it returns 0 exactly
   when no invocation failed. *)
C12_PerGroup ==
  (updateRun.pc = "done" /\ updateRun.groups # <<>>) => PerGroup

\* C12 for the updates in which no add invocation threw.
C12_UnlessThrown ==
  (updateRun.pc = "done" /\ updateRun.groups # <<>> /\ ~updateRun.thrown) => PerGroup

\* An update of two groups returned 1: the first add invocation failed to
\* resolve its source, the second succeeded.
C12_FailedThenUpdated ==
  /\ updateRun.pc = "done"
  /\ Len(updateRun.groups) = 2
  /\ updateRun.calls[1].exit = 1
  /\ updateRun.calls[2].exit = 0
  /\ updateRun.exit = 1
  /\ PerGroup

\* The add invocation failed: its source did not resolve, a requested skill was
\* not found, or installSkill threw.
AddFailed(call) == call.exit # 0

\* installSkill threw in the add invocation.
InstallerThrew(call) == call.exit = ExitUncaught

(* C13: an add invocation whose source does not resolve or in which an
   installSkill call fails does not throw: it returns a non-zero exit code
   after one line on stderr. *)
C13_ErrorBoundary ==
  \A c \in 1..Len(updateRun.calls) :
    AddFailed(updateRun.calls[c])
      => /\ ~InstallerThrew(updateRun.calls[c])
         /\ Len(updateRun.calls[c].stderr) = 1

\* C13 for the failures before the install loop: resolveSource and selectSkills.
C13_UnlessInstallerThrew ==
  \A c \in 1..Len(updateRun.calls) :
    (AddFailed(updateRun.calls[c]) /\ ~InstallerThrew(updateRun.calls[c]))
      => /\ updateRun.calls[c].exit = 1
         /\ Len(updateRun.calls[c].stderr) = 1

\* An add invocation returned 1 with one line about the source it could not resolve.
C13_ResolveFailed ==
  \E c \in 1..Len(updateRun.calls) :
    updateRun.calls[c].exit = 1 /\ updateRun.calls[c].stderr = <<"resolve">>

(***************************************************************************)
(* Archive entries, as tar and unzip list them                             *)
(***************************************************************************)
\* An entry of an archive: its path after the backslashes have been replaced
\* by "/" (a prefix "/" or "C:" and the segments between the slashes), and
\* what it is: a regular file, a directory or a symbolic link.
Entry(prefix, segs, kind) == [prefix |-> prefix, segs |-> segs, kind |-> kind]

File(segs) == Entry("", segs, "file")

\* path.posix.normalize of a relative path, segment by segment: "." is
\* dropped, ".." takes back the segment before it unless there is none or it
\* is a ".." itself.
RECURSIVE NormalizeFrom(_, _, _)
NormalizeFrom(segs, i, out) ==
  IF i > Len(segs) THEN out
  ELSE IF segs[i] = "." THEN NormalizeFrom(segs, i + 1, out)
  ELSE IF segs[i] = ".." /\ out # <<>> /\ out[Len(out)] # ".."
  THEN NormalizeFrom(segs, i + 1, SubSeq(out, 1, Len(out) - 1))
  ELSE NormalizeFrom(segs, i + 1, Append(out, segs[i]))

PosixNormalize(segs) == NormalizeFrom(segs, 1, <<>>)

\* validateTarEntry / validateArchiveEntryPath throws: the path starts with
\* "/" or a drive letter, or its normal form is ".." or starts with "../".
EntryNeverRejected(entry) == FALSE

EntryRejected(entry) ==
  \/ entry.prefix # ""
  \/ LET safe == PosixNormalize(entry.segs)
     IN safe # <<>> /\ safe[1] = ".."

(***************************************************************************)
(* resolvers/oci.ts: resolveOciSource                                      *)
(***************************************************************************)
SKILLET_ARTIFACT_TYPE == "application/vnd.skillet.skill.v1+tar"

\* What the artifactType of a manifest may be: the skill type, the same in
\* other case, another media type, a value that is not a string, or missing.
ArtifactTypes ==
  {SKILLET_ARTIFACT_TYPE, "application/vnd.skillet.skill.v1+TAR",
   "application/vnd.oci.image.config.v1+json", NotAString, Undefined}

\* Layer digests, and whether layerDigest.startsWith("sha256:").
LayerDigests == {"sha256:l1", "md5:l1", NotAString}
StartsWithSha256(digest) == digest = "sha256:l1"

NotAnObject == [digest |-> "<not an object>"]
Layer(digest) == [digest |-> digest]

\* What `layers` may be: missing, empty, or a list of layer entries.
LayerLists ==
  {<<NotAnObject>>, <<>>, <<Layer("sha256:l1")>>, <<Layer("md5:l1")>>, <<Layer(NotAString)>>,
   <<Layer("sha256:l1"), Layer("md5:l1")>>}

\* A manifest body as JSON.parse reads it: not JSON, null, an array, or an
\* object with an artifactType and layers (hasLayers: `layers` is an array).
Manifest(json, artifactType, hasLayers, layers) ==
  [json |-> json, artifactType |-> artifactType, hasLayers |-> hasLayers, layers |-> layers]

Manifests ==
  {Manifest(json, Undefined, FALSE, <<>>) : json \in {"invalid", "null", "array"}}
    \cup {Manifest("object", type, FALSE, <<>>) : type \in ArtifactTypes}
    \cup {Manifest("object", type, TRUE, layers) : type \in ArtifactTypes, layers \in LayerLists}

\* The layer blobs of the model, each by the entries of its tar stream.
NotATar == <<Entry("", <<"<not a tar>">>, "none")>>

LayerArchives ==
  { <<File(<<"alpha", "SKILL.md">>), File(<<"alpha", "notes.txt">>)>>,
    <<File(<<"alpha", "SKILL.md">>), File(<<"beta", "SKILL.md">>)>>,
    <<File(<<"alpha", "notes.txt">>)>>,
    <<File(<<"SKILL.md">>)>>,
    <<File(<<"nested", "alpha", "SKILL.md">>)>>,
    <<File(<<"alpha", "SKILL.md">>), Entry("", <<"beta", "SKILL.md">>, "symlink")>>,
    <<Entry("", <<"beta", "SKILL.md">>, "symlink")>>,
    <<File(<<"alpha", "SKILL.md">>), Entry("", <<"beta", "SKILL.md">>, "dir")>>,
    <<File(<<"alpha", "SKILL.md">>), File(<<"alpha", "..", "..", "evil">>)>>,
    <<Entry("/", <<"etc", "SKILL.md">>, "file")>>,
    <<>>,
    NotATar }

\* findSkillDirectories: the directories under the extraction root that hold
\* a regular file named SKILL.md, each by its path from the root. Directory
\* entries are descended into; symbolic links are neither followed nor counted.
FindFirstSkillDirectory(archive) ==
  LET found == {k \in 1..Len(archive) :
                  /\ archive[k].kind = "file"
                  /\ archive[k].segs[Len(archive[k].segs)] = "SKILL.md"}
  IN {SubSeq(archive[i].segs, 1, Len(archive[i].segs) - 1) :
        i \in {k \in found : \A j \in found : k <= j}}

FindSkillDirectories(archive) ==
  {SubSeq(archive[i].segs, 1, Len(archive[i].segs) - 1) :
     i \in {k \in 1..Len(archive) :
              /\ archive[k].kind = "file"
              /\ archive[k].segs[Len(archive[k].segs)] = "SKILL.md"}}

\* digestManifest(manifestText)
DigestManifest(manifest) == "sha256:" \o Sha256Hex("manifest")

OciSources == {OciTagged, OciPinned, OciNoRepository}

outsideOci ==
  <<fsVars, lockVars, instVars, checkVars, cliVars, updateRun, httpRun, discoverRun, parseRun,
    agentsRun, addRun>>

OciFails(error) == [ociRun EXCEPT !.pc = "done", !.error = error]

\* resolveOciSource is called: the reference is parsed, the work directory made.
OciBegin ==
  /\ ociRun.pc \in {"idle", "done"}
  /\ \E source \in OciSources :
       ociRun' =
         IF ~ParseOciReference(source).ok
         THEN [NoOciRun EXCEPT !.pc = "done", !.source = source, !.error = "OciResolveError"]
         ELSE [NoOciRun EXCEPT !.pc = "fetchManifest", !.source = source]
  /\ UNCHANGED outsideOci

\* fetchWithErrors(manifestUrl) and manifestResponse.text()
OciFetchManifest ==
  /\ ociRun.pc = "fetchManifest"
  /\ \/ ociRun' = OciFails("OciResolveError")
     \/ \E manifest \in Manifests, header \in {Undefined, ManifestTwo} :
          ociRun' = [ociRun EXCEPT !.pc = "readManifest", !.manifest = manifest, !.header = header]
  /\ UNCHANGED outsideOci

\* The checks on the parsed manifest, in the order of the code: a JSON object,
\* of the skill artifact type, with a first layer that names a sha256 digest.
ManifestAcceptedAnyType(manifest) ==
  /\ manifest.json = "object"
  /\ manifest.hasLayers /\ Len(manifest.layers) > 0
  /\ manifest.layers[1] # NotAnObject
  /\ StartsWithSha256(manifest.layers[1].digest)

ManifestAccepted(manifest) ==
  /\ manifest.json = "object"
  /\ manifest.artifactType = SKILLET_ARTIFACT_TYPE
  /\ manifest.hasLayers /\ Len(manifest.layers) > 0
  /\ manifest.layers[1] # NotAnObject
  /\ StartsWithSha256(manifest.layers[1].digest)

\* The manifest is parsed and checked; every failed check throws OciResolveError.
OciReadManifest ==
  /\ ociRun.pc = "readManifest"
  /\ ociRun' =
       IF ManifestAccepted(ociRun.manifest) THEN [ociRun EXCEPT !.pc = "fetchBlob"]
       ELSE OciFails("OciResolveError")
  /\ UNCHANGED outsideOci

\* fetchWithErrors(blobUrl) and blobResponse.arrayBuffer()
OciFetchBlob ==
  /\ ociRun.pc = "fetchBlob"
  /\ \/ ociRun' = OciFails("OciResolveError")
     \/ \E archive \in LayerArchives :
          ociRun' = [ociRun EXCEPT !.pc = "writeArchive", !.blobsFetched = @ + 1,
                                   !.archive = archive]
  /\ UNCHANGED outsideOci

\* fs.writeFileSync(archivePath, blobBuffer)
OciWriteArchive ==
  /\ ociRun.pc = "writeArchive"
  /\ ociRun' = [ociRun EXCEPT !.pc = "listEntries", !.written = TRUE]
  /\ UNCHANGED outsideOci

\* listTarEntries, then validateTarEntry for every entry.
OciListEntries ==
  /\ ociRun.pc = "listEntries"
  /\ ociRun' =
       IF ociRun.archive = NotATar THEN OciFails("OciResolveError")
       ELSE IF \E i \in 1..Len(ociRun.archive) : EntryRejected(ociRun.archive[i])
       THEN OciFails("OciResolveError")
       ELSE [ociRun EXCEPT !.pc = "extract"]
  /\ UNCHANGED outsideOci

\* mkdir extractPath; tar -xf archivePath -C extractPath
OciExtract ==
  /\ ociRun.pc = "extract"
  /\ ociRun' = [ociRun EXCEPT !.pc = "scan", !.extracted = TRUE]
  /\ UNCHANGED outsideOci

\* findSkillDirectories(extractPath), the single-skill test, the digest, return.
OciScan ==
  /\ ociRun.pc = "scan"
  /\ LET skillPaths == FindSkillDirectories(ociRun.archive)
         parsed == ParseOciReference(ociRun.source)
     IN ociRun' =
          IF Cardinality(skillPaths) # 1 THEN OciFails("OciResolveError")
          ELSE [ociRun EXCEPT
                  !.pc = "done",
                  !.resolvedDigest =
                    IF parsed.referenceType = "digest" THEN parsed.reference
                    ELSE IF ociRun.header # Undefined THEN ociRun.header
                    ELSE DigestManifest(ociRun.manifest),
                  !.contentPath = CHOOSE dir \in skillPaths : TRUE]
  /\ UNCHANGED outsideOci

InitOci ==
  /\ agentDirs = [a \in KNOWN_AGENTS |-> [n \in SkillNames |-> NoEntry]]
  /\ storage = [k \in {} |-> NoEntry]
  /\ lockfile = NoLockfile
  /\ lockRuns = <<>>
  /\ InstallerAtRest
  /\ CheckerAtRest
  /\ CommandsAtRest
  /\ RunsAtRest

NextOci ==
  \/ OciBegin
  \/ OciFetchManifest
  \/ OciReadManifest
  \/ OciFetchBlob
  \/ OciWriteArchive
  \/ OciListEntries
  \/ OciExtract
  \/ OciScan

SpecOci == InitOci /\ [][NextOci]_vars

\* The manifest of the run has been received and is not of the skill type.
WrongArtifactType ==
  /\ ociRun.pc \notin {"idle", "fetchManifest"}
  /\ ociRun.manifest.json # "none"
  /\ ociRun.manifest.artifactType # SKILLET_ARTIFACT_TYPE

(* C14: a manifest whose artifactType is not exactly
   application/vnd.skillet.skill.v1+tar (a missing one included) ends the
   resolution with OciResolveError, and no layer blob has been fetched, written
   to disk or extracted. *)
C14_ArtifactTypeFirewall ==
  WrongArtifactType =>
    /\ ociRun.pc \in {"readManifest", "done"}
    /\ ociRun.pc = "done" => ociRun.error = "OciResolveError"
    /\ ociRun.blobsFetched = 0
    /\ ~ociRun.written
    /\ ~ociRun.extracted

C14_WrongCaseRejected ==
  /\ ociRun.pc = "done"
  /\ ociRun.error = "OciResolveError"
  /\ ociRun.manifest.json = "object"
  /\ ociRun.manifest.artifactType = "application/vnd.skillet.skill.v1+TAR"
  /\ ociRun.manifest.hasLayers
  /\ ociRun.manifest.layers = <<Layer("sha256:l1")>>

\* The directories of an archive: every proper prefix of an entry's path.
DirectoriesOf(archive) ==
  UNION {{SubSeq(archive[i].segs, 1, n) : n \in 0..(Len(archive[i].segs) - 1)} :
           i \in 1..Len(archive)}

\* The directories of the extracted layer that hold a file SKILL.md.
SkillHolders(archive) ==
  {dir \in DirectoriesOf(archive) :
     \E i \in 1..Len(archive) :
       archive[i].kind = "file" /\ archive[i].segs = Append(dir, "SKILL.md")}

(* C15: a resolution whose layer has been extracted succeeds only when the
   extracted contents have exactly one directory holding a SKILL.md, and then
   contentPath is that directory; with none or with two or more it ends in
   OciResolveError. *)
C15_SingleSkillRule ==
  (ociRun.pc = "done" /\ ociRun.extracted) =>
    LET holders == SkillHolders(ociRun.archive)
    IN /\ ociRun.error = "" <=> Cardinality(holders) = 1
       /\ ociRun.error = "" => ociRun.contentPath \in holders
       /\ ociRun.error # "" => ociRun.error = "OciResolveError"

C15_TwoSkillsRejected ==
  /\ ociRun.pc = "done"
  /\ ociRun.extracted
  /\ ociRun.error = "OciResolveError"
  /\ Cardinality(SkillHolders(ociRun.archive)) = 2

(***************************************************************************)
(* resolvers/http-archive.ts: resolveHttpArchive                           *)
(***************************************************************************)
\* The longest body in chunks, the largest chunk and the largest download
\* limit in bytes, and the longest archive in entries.
MaxChunks == 3
MaxChunkBytes == 2
MaxDownloadLimit == 3
MaxArchiveEntries == 2

\* The members an archive of the model is made of: a skill file, a name of
\* white space only, a name with ".." that stays inside, traversals, and
\* absolute paths.
BlankName == File(<<" ">>)

ArchiveMembers ==
  {File(<<"skill", "SKILL.md">>), BlankName, File(<<"skill", "..", "notes">>),
   File(<<"..", "evil">>), File(<<"skill", "..", "..", "evil">>), File(<<"skill", "..", "..">>),
   Entry("/", <<"etc", "evil">>, "file"), Entry("C:", <<"evil">>, "file")}

HttpArchives == UNION {[1..n -> ArchiveMembers] : n \in 0..MaxArchiveEntries}

\* listArchiveEntries: the lines of `tar -tzf` or `unzip -Z1`, one per member,
\* trimmed, the empty ones dropped.
RECURSIVE ListArchiveEntries(_, _)
ListArchiveEntries(archive, i) ==
  IF i > Len(archive) THEN <<>>
  ELSE IF archive[i] = BlankName THEN ListArchiveEntries(archive, i + 1)
  ELSE <<archive[i]>> \o ListArchiveEntries(archive, i + 1)

\* detectArchiveFormat: the end of the final URL, then the content type, then
\* the first bytes of the body (two for gzip, four for zip).
DetectArchiveFormat(urlEnd, contentType, magic, length) ==
  IF urlEnd \in {".tar.gz", ".tgz"} THEN "tar.gz"
  ELSE IF urlEnd = ".zip" THEN "zip"
  ELSE IF contentType = "application/zip" THEN "zip"
  ELSE IF contentType \in {"application/gzip", "application/x-gzip"} THEN "tar.gz"
  ELSE IF length >= 2 /\ magic = "gzip" THEN "tar.gz"
  ELSE IF length >= 4 /\ magic = "zip" THEN "zip"
  ELSE "<thrown>"

\* The test of the read loop on the bytes counted so far.
ExceedsOrReaches(totalBytes, maxDownloadBytes) == totalBytes >= maxDownloadBytes

Exceeds(totalBytes, maxDownloadBytes) == totalBytes > maxDownloadBytes

outsideHttp ==
  <<fsVars, lockVars, instVars, checkVars, cliVars, updateRun, ociRun, discoverRun, parseRun,
    agentsRun, addRun>>

HttpFails(reason) == [httpRun EXCEPT !.pc = "done", !.error = "ArchiveResolveError", !.reason = reason]

\* resolveHttpArchive is called with its limits; downloadArchive sends the
\* request, which fails, is answered with an error status or without a body,
\* or gives a body to read.
HttpBegin ==
  /\ httpRun.pc = "idle"
  /\ \E maxDownloadBytes \in 0..MaxDownloadLimit, maxEntries \in 0..MaxArchiveEntries,
        urlEnd \in {".tar.gz", ""}, response \in {"fetch failed", "not ok", "no body", "body"} :
       LET run == [NoHttpRun EXCEPT !.maxDownloadBytes = maxDownloadBytes,
                                    !.maxEntries = maxEntries, !.urlEnd = urlEnd]
       IN httpRun' =
            IF response = "body" THEN [run EXCEPT !.pc = "reading"]
            ELSE [run EXCEPT !.pc = "done", !.error = "ArchiveResolveError", !.reason = response]
  /\ UNCHANGED outsideHttp

\* One turn of the read loop: the body is at its end, or gives one more chunk,
\* which is counted, tested against the limit and only then kept.
HttpRead ==
  /\ httpRun.pc = "reading"
  /\ \/ httpRun' = [httpRun EXCEPT !.pc = "downloaded"]
     \/ /\ httpRun.reads < MaxChunks
        /\ \E length \in 1..MaxChunkBytes :
             \E totalBytes \in {httpRun.totalBytes + length} :
               httpRun' =
                 IF Exceeds(totalBytes, httpRun.maxDownloadBytes)
                 THEN [httpRun EXCEPT !.pc = "done", !.reads = @ + 1, !.totalBytes = totalBytes,
                                      !.error = "ArchiveResolveError", !.reason = "download limit"]
                 ELSE [httpRun EXCEPT !.reads = @ + 1, !.totalBytes = totalBytes,
                                      !.chunks = Append(@, length)]
  /\ UNCHANGED outsideHttp

\* detectArchiveFormat, then fs.writeFileSync(archivePath, downloaded.buffer)
HttpWrite ==
  /\ httpRun.pc = "downloaded"
  /\ \E contentType \in {"", "application/zip"}, magic \in {"gzip", "none"} :
       \E format \in {DetectArchiveFormat(httpRun.urlEnd, contentType, magic, httpRun.totalBytes)} :
         httpRun' =
           IF format = "<thrown>" THEN HttpFails("format")
           ELSE [httpRun EXCEPT !.pc = "list", !.format = format, !.written = TRUE]
  /\ UNCHANGED outsideHttp

\* listArchiveEntries, the count against maxEntries, validateArchiveEntryPath
\* for every entry listed.
HttpList ==
  /\ httpRun.pc = "list"
  /\ \/ httpRun' = HttpFails("inspect")
     \/ \E archive \in HttpArchives :
          \E entries \in {ListArchiveEntries(archive, 1)} :
            httpRun' =
              IF Len(entries) > httpRun.maxEntries
              THEN [HttpFails("entry count") EXCEPT !.archive = archive, !.listed = TRUE]
              ELSE IF \E i \in 1..Len(entries) : EntryRejected(entries[i])
              THEN [HttpFails("entry path") EXCEPT !.archive = archive, !.listed = TRUE]
              ELSE [httpRun EXCEPT !.pc = "extract", !.archive = archive, !.listed = TRUE]
  /\ UNCHANGED outsideHttp

\* mkdir extractPath; extractArchive
HttpExtract ==
  /\ httpRun.pc = "extract"
  /\ \/ httpRun' = [HttpFails("extract") EXCEPT !.extracted = TRUE]
     \/ httpRun' = [httpRun EXCEPT !.pc = "measure", !.extracted = TRUE]
  /\ UNCHANGED outsideHttp

\* computeDirectorySize against maxExtractedBytes, then the return.
HttpMeasure ==
  /\ httpRun.pc = "measure"
  /\ \/ httpRun' = HttpFails("extracted size")
     \/ httpRun' = [httpRun EXCEPT !.pc = "done"]
  /\ UNCHANGED outsideHttp

InitHttp == InitOci

NextHttp ==
  \/ HttpBegin
  \/ HttpRead
  \/ HttpWrite
  \/ HttpList
  \/ HttpExtract
  \/ HttpMeasure

SpecHttp == InitHttp /\ [][NextHttp]_vars

\* The entries of the archive of the run that the claim rejects: an absolute
\* path, or one whose normal form is ".." or starts with "../".
UnsafeEntries ==
  {i \in 1..Len(httpRun.archive) : EntryRejected(httpRun.archive[i])}

ValidateBeforeExtract ==
  /\ httpRun.extracted =>
       /\ httpRun.listed
       /\ Len(httpRun.archive) <= httpRun.maxEntries
       /\ UnsafeEntries = {}
  /\ (httpRun.pc = "done" /\ httpRun.listed
        /\ (Len(httpRun.archive) > httpRun.maxEntries \/ UnsafeEntries # {})) =>
       /\ httpRun.error = "ArchiveResolveError"
       /\ ~httpRun.extracted

(* C16: the archive is extracted only after its entries have been listed, are
   at most maxEntries and have all been validated; an archive with an absolute
   or a traversing entry, or with more than maxEntries entries, ends in
   ArchiveResolveError without the extraction having run. *)
C16_ValidateBeforeExtract == ValidateBeforeExtract

\* The archive of the run has a member whose name is white space only.
BlankNamed == \E i \in 1..Len(httpRun.archive) : httpRun.archive[i] = BlankName

C16_UnlessBlankNamed == ~BlankNamed => ValidateBeforeExtract

C16_TraversalRejected ==
  /\ httpRun.pc = "done"
  /\ httpRun.reason = "entry path"
  /\ ~httpRun.extracted
  /\ httpRun.archive = <<File(<<"skill", "SKILL.md">>), File(<<"skill", "..", "..", "evil">>)>>

RECURSIVE SumBytes(_, _)
SumBytes(chunks, i) == IF i > Len(chunks) THEN 0 ELSE chunks[i] + SumBytes(chunks, i + 1)

(* C17: the download ends in ArchiveResolveError at the first chunk that takes
   the bytes read over maxDownloadBytes: the chunks before it fit, none is
   read after it, no archive file is written and nothing is extracted; bytes
   within the limit are never refused by it, and no byte over it is kept. *)
C17_DownloadCap ==
  /\ httpRun.reason = "download limit" =>
       /\ httpRun.pc = "done"
       /\ httpRun.error = "ArchiveResolveError"
       /\ httpRun.totalBytes > httpRun.maxDownloadBytes
       /\ SumBytes(httpRun.chunks, 1) <= httpRun.maxDownloadBytes
       /\ httpRun.reads = Len(httpRun.chunks) + 1
       /\ ~httpRun.written
       /\ ~httpRun.extracted
  /\ httpRun.totalBytes > httpRun.maxDownloadBytes => httpRun.reason = "download limit"
  /\ httpRun.reason # "download limit" => SumBytes(httpRun.chunks, 1) = httpRun.totalBytes

C17_SecondChunkOverLimit ==
  /\ httpRun.reason = "download limit"
  /\ httpRun.maxDownloadBytes = 2
  /\ httpRun.chunks = <<2>>
  /\ httpRun.totalBytes = 3

(***************************************************************************)
(* skills/discovery.ts: discoverSkills                                     *)
(***************************************************************************)
\* The most SKILL.md files in a scanned tree.
MaxSkillFiles == 2

\* A directory: under cwd ("/w") or homeDir ("/h"), by the names on the way.
Dir(base, segs) == [base |-> base, segs |-> segs]

RECURSIVE JoinSegs(_, _)
JoinSegs(segs, i) == IF i > Len(segs) THEN "" ELSE "/" \o segs[i] \o JoinSegs(segs, i + 1)

DirPath(dir) == dir.base \o JoinSegs(dir.segs, 1)

\* path.basename of a directory
DirName(dir) == IF dir.segs = <<>> THEN "w" ELSE dir.segs[Len(dir.segs)]

STANDARD_SKILL_DIRS ==
  <<<<>>, <<"skills">>, <<"skills", ".curated">>, <<"skills", ".experimental">>,
    <<"skills", ".system">>>>

KNOWN_AGENT_SKILL_DIRS ==
  <<<<".claude", "skills">>, <<".codex", "skills">>, <<".opencode", "skills">>,
    <<".cursor", "skills">>, <<".windsurf", "skills">>>>

FALLBACK_IGNORED_DIRS == {".git", "node_modules", "dist", ".worktrees", "worktrees"}

\* The directories of the model that may hold a SKILL.md.
LinkedDir == Dir("/w", <<".codex", "skills", "alpha">>)
LinkTarget == Dir("/w", <<"skills", "alpha">>)

SkillPlaces ==
  {Dir("/w", <<>>), Dir("/w", <<"skills">>), LinkTarget, Dir("/w", <<"skills", ".curated">>),
   Dir("/w", <<"skills", ".curated", "alpha">>), Dir("/w", <<".codex", "skills">>), LinkedDir,
   Dir("/h", <<".codex", "skills", "beta">>), Dir("/w", <<"custom">>),
   Dir("/w", <<"custom", "nested", "beta">>), Dir("/w", <<"node_modules", "pkg", "beta">>),
   Dir("/w", <<"other", "deep", "beta">>)}

\* What a SKILL.md may be: absent; a skill that names its directory; text
\* without frontmatter (SkillParseError); frontmatter that is not YAML (the
\* YAML parser's own error).
SkillFileKinds == {"none", "skill", "broken", "yaml"}

\* A tree gives every place its SKILL.md; `linked`: LinkedDir is a symbolic
\* link to LinkTarget.
Trees ==
  UNION {{[dir \in SkillPlaces |-> IF dir \in held THEN kinds[dir] ELSE "none"] :
            kinds \in [held -> SkillFileKinds \ {"none"}]} :
           held \in {some \in SUBSET SkillPlaces : Cardinality(some) <= MaxSkillFiles}}

\* fs.realpathSync of a directory
ToCanonicalPath(dir, linked) == IF linked /\ dir = LinkedDir THEN LinkTarget ELSE dir

\* The SKILL.md that isFile and readFileSync find in a directory.
SkillFileIn(tree, linked, dir) ==
  IF dir \notin SkillPlaces THEN "none" ELSE tree[ToCanonicalPath(dir, linked)]

\* NAME_PATTERN: lower-case words joined by single hyphens.
NamePattern(name) == name # ".curated"

\* parseSkillMarkdown(text, {path}): the name of the skill, or what was thrown.
ParseSkillMarkdown(kind, dir) ==
  IF kind = "yaml" THEN "<YAMLParseError>"
  ELSE IF kind = "broken" THEN "<SkillParseError>"
  ELSE IF ~NamePattern(DirName(dir)) THEN "<SkillParseError>"
  ELSE DirName(dir)

\* isDirectory(root): some directory below it, or itself, is in the tree.
IsPrefix(short, long) ==
  Len(short) <= Len(long) /\ SubSeq(long, 1, Len(short)) = short

RootExists(tree, linked, root) ==
  \E dir \in SkillPlaces :
    /\ dir.base = root.base
    /\ IsPrefix(root.segs, dir.segs)
    /\ tree[dir] # "none" \/ (linked /\ dir = LinkedDir)

\* [root, ...listChildDirectories(root)]; the directories of the model that
\* never hold a SKILL.md are left out, collectFromSkillDir returns false on them.
CandidateDirs(root) ==
  {dir \in SkillPlaces :
     /\ dir.base = root.base
     /\ IsPrefix(root.segs, dir.segs)
     /\ Len(dir.segs) <= Len(root.segs) + 1}

\* The directories whose paths are given, in the order of the paths.
DirsInOrder(dirs) ==
  LET paths == SortedStrings({DirPath(dir) : dir \in dirs})
  IN [i \in 1..Len(paths) |-> CHOOSE dir \in dirs : DirPath(dir) = paths[i]]

\* The skill directories a list of roots is visited in: root by root, each
\* root's candidates sorted by path.
RECURSIVE VisitsOfRoots(_, _)
VisitsOfRoots(roots, i) ==
  IF i > Len(roots) THEN <<>>
  ELSE DirsInOrder(CandidateDirs(roots[i])) \o VisitsOfRoots(roots, i + 1)

StandardRoots(tree, linked) ==
  DirsInOrder({root \in {Dir("/w", STANDARD_SKILL_DIRS[i]) : i \in 1..Len(STANDARD_SKILL_DIRS)} :
                 RootExists(tree, linked, root)})

\* collectAgentRoots(cwd, homeDir)
CollectAgentRoots(tree, linked) ==
  DirsInOrder({root \in {Dir(base, KNOWN_AGENT_SKILL_DIRS[i]) :
                           base \in {"/w", "/h"}, i \in 1..Len(KNOWN_AGENT_SKILL_DIRS)} :
                 RootExists(tree, linked, root)})

\* findSkillFilesRecursively(cwd): the directories under cwd with a SKILL.md
\* file, reached through directories that are neither ignored nor symbolic
\* links, in the order of the files' paths.
FindSkillFilesRecursively(tree, linked) ==
  LET found == {dir \in SkillPlaces :
                  /\ dir.base = "/w"
                  /\ ~(linked /\ dir = LinkedDir)
                  /\ tree[dir] # "none"
                  /\ \A i \in 1..Len(dir.segs) : dir.segs[i] \notin FALLBACK_IGNORED_DIRS}
      files == SortedStrings({DirPath(dir) \o "/SKILL.md" : dir \in found})
  IN [i \in 1..Len(files) |-> CHOOSE dir \in found : DirPath(dir) \o "/SKILL.md" = files[i]]

\* collectFromSkillDir on the run: FALSE without a SKILL.md file; a parse that
\* throws leaves a warning when verbose and the error is a SkillParseError;
\* a skill is pushed unless its canonical path or its name was seen.
HasSkillMd(run, dir) == SkillFileIn(run.tree, run.linked, dir) # "none"

CollectByPathOnly(run, dir, source) ==
  LET parsed == ParseSkillMarkdown(SkillFileIn(run.tree, run.linked, dir), dir)
      canonicalPath == ToCanonicalPath(dir, run.linked)
  IN IF ~HasSkillMd(run, dir) THEN run
     ELSE IF parsed = "<SkillParseError>"
     THEN IF run.verbose
          THEN [run EXCEPT !.warnings = Append(@, DirPath(dir) \o "/SKILL.md")]
          ELSE run
     ELSE IF parsed = "<YAMLParseError>" THEN run
     ELSE IF canonicalPath \in run.seenCanonicalPaths THEN run
     ELSE [run EXCEPT !.seenCanonicalPaths = @ \cup {canonicalPath},
                      !.seenNames = @ \cup {parsed},
                      !.skills = Append(@, [name |-> parsed, path |-> DirPath(dir),
                                            dir |-> dir, source |-> source])]

CollectFromSkillDir(run, dir, source) ==
  LET parsed == ParseSkillMarkdown(SkillFileIn(run.tree, run.linked, dir), dir)
      canonicalPath == ToCanonicalPath(dir, run.linked)
  IN IF ~HasSkillMd(run, dir) THEN run
     ELSE IF parsed = "<SkillParseError>"
     THEN IF run.verbose
          THEN [run EXCEPT !.warnings = Append(@, DirPath(dir) \o "/SKILL.md")]
          ELSE run
     ELSE IF parsed = "<YAMLParseError>" THEN run
     ELSE IF canonicalPath \in run.seenCanonicalPaths \/ parsed \in run.seenNames THEN run
     ELSE [run EXCEPT !.seenCanonicalPaths = @ \cup {canonicalPath},
                      !.seenNames = @ \cup {parsed},
                      !.skills = Append(@, [name |-> parsed, path |-> DirPath(dir),
                                            dir |-> dir, source |-> source])]

\* collectFromSkillDir over a list of directories, in its order.
RECURSIVE CollectEach(_, _, _, _)
CollectEach(run, visits, i, source) ==
  IF i > Len(visits) THEN run
  ELSE CollectEach(CollectFromSkillDir(run, visits[i], source), visits, i + 1, source)

\* candidateCount, summed over the roots: the visits that found a SKILL.md file.
CandidateCount(run, visits) == Cardinality({i \in 1..Len(visits) : HasSkillMd(run, visits[i])})

\* The test that starts the recursive scan.
FallbackWantedWithoutSkills(standardCandidateCount, standardSkillCount, agentCandidateCount) ==
  standardSkillCount = 0 /\ agentCandidateCount = 0

FallbackWanted(standardCandidateCount, standardSkillCount, agentCandidateCount) ==
  standardCandidateCount = 0 /\ standardSkillCount = 0 /\ agentCandidateCount = 0

outsideDiscover ==
  <<fsVars, lockVars, instVars, checkVars, cliVars, updateRun, ociRun, httpRun, parseRun,
    agentsRun, addRun>>

\* discoverSkills is called on a tree.
DiscoverBegin ==
  /\ discoverRun.pc = "idle"
  /\ \E tree \in Trees, linked \in BOOLEAN, verbose \in BOOLEAN :
       /\ linked => tree[LinkedDir] = "none"
       /\ discoverRun' = [NoDiscoverRun EXCEPT !.pc = "standard", !.tree = tree,
                                               !.linked = linked, !.verbose = verbose]
  /\ UNCHANGED outsideDiscover

\* The standard roots, each with collectFromRoot.
DiscoverStandard ==
  /\ discoverRun.pc = "standard"
  /\ \E visits \in {VisitsOfRoots(StandardRoots(discoverRun.tree, discoverRun.linked), 1)} :
       \E run \in {CollectEach(discoverRun, visits, 1, "standard")} :
         discoverRun' = [run EXCEPT !.pc = "agent",
                                    !.standardSkillCount = Len(run.skills),
                                    !.standardCandidateCount = CandidateCount(discoverRun, visits)]
  /\ UNCHANGED outsideDiscover

\* The agent roots under cwd and homeDir, each with collectFromRoot.
DiscoverAgents ==
  /\ discoverRun.pc = "agent"
  /\ \E visits \in {VisitsOfRoots(CollectAgentRoots(discoverRun.tree, discoverRun.linked), 1)} :
       \E run \in {CollectEach(discoverRun, visits, 1, "agent")} :
         discoverRun' = [run EXCEPT !.pc = "fallback",
                                    !.agentCandidateCount = CandidateCount(discoverRun, visits)]
  /\ UNCHANGED outsideDiscover

\* The recursive scan of cwd, when nothing was found before.
DiscoverFallback ==
  /\ discoverRun.pc = "fallback"
  /\ discoverRun' =
       IF FallbackWanted(discoverRun.standardCandidateCount, discoverRun.standardSkillCount,
                         discoverRun.agentCandidateCount)
       THEN [CollectEach(discoverRun,
                         FindSkillFilesRecursively(discoverRun.tree, discoverRun.linked),
                         1, "fallback")
               EXCEPT !.pc = "sort", !.usedFallback = TRUE]
       ELSE [discoverRun EXCEPT !.pc = "sort"]
  /\ UNCHANGED outsideDiscover

\* skills.sort by name, then path; the return.
DiscoverReturn ==
  /\ discoverRun.pc = "sort"
  /\ LET skills == discoverRun.skills
         compared == [j \in 1..Len(skills) |-> [i \in 1..Len(skills) |->
                        IF LocaleCompare(skills[j].name, skills[i].name) # 0
                        THEN LocaleCompare(skills[j].name, skills[i].name)
                        ELSE LocaleCompare(skills[j].path, skills[i].path)]]
     IN discoverRun' = [discoverRun EXCEPT !.pc = "done",
                                           !.skills = ArraySort(skills, compared)]
  /\ UNCHANGED outsideDiscover

InitDiscover == InitOci

NextDiscover ==
  \/ DiscoverBegin
  \/ DiscoverStandard
  \/ DiscoverAgents
  \/ DiscoverFallback
  \/ DiscoverReturn

SpecDiscover == InitDiscover /\ [][NextDiscover]_vars

\* The standard and the per-agent locations: the roots and their child directories.
StandardLocations ==
  UNION {CandidateDirs(Dir("/w", STANDARD_SKILL_DIRS[i])) : i \in 1..Len(STANDARD_SKILL_DIRS)}

AgentLocations ==
  UNION {CandidateDirs(Dir(base, KNOWN_AGENT_SKILL_DIRS[i])) :
           base \in {"/w", "/h"}, i \in 1..Len(KNOWN_AGENT_SKILL_DIRS)}

\* The SKILL.md of a directory in the tree of the run, and whether it parses.
FileAt(dir) == SkillFileIn(discoverRun.tree, discoverRun.linked, dir)

ValidAt(dir) ==
  /\ FileAt(dir) = "skill"
  /\ NamePattern(DirName(dir))

InvalidAt(dir) == FileAt(dir) # "none" /\ ~ValidAt(dir)

FoundSkill(i) == discoverRun.skills[i]

(* C18: the recursive scan has run (usedFallback) exactly when no directory of
   the standard or per-agent locations holds a SKILL.md, valid or not; without
   it every returned skill lies in those locations; with it no returned skill
   lies under .git, node_modules, dist, .worktrees or worktrees. *)
C18_FallbackRule ==
  discoverRun.pc = "done" =>
    /\ discoverRun.usedFallback <=>
         ~\E dir \in StandardLocations \cup AgentLocations : FileAt(dir) # "none"
    /\ ~discoverRun.usedFallback =>
         \A i \in 1..Len(discoverRun.skills) :
           FoundSkill(i).dir \in StandardLocations \cup AgentLocations
    /\ discoverRun.usedFallback =>
         \A i \in 1..Len(discoverRun.skills) :
           \A n \in 1..Len(FoundSkill(i).dir.segs) :
             FoundSkill(i).dir.segs[n] \notin {".git", "node_modules", "dist", ".worktrees", "worktrees"}

C18_FallbackSkipsNodeModules ==
  /\ discoverRun.pc = "done"
  /\ discoverRun.usedFallback
  /\ discoverRun.tree[Dir("/w", <<"node_modules", "pkg", "beta">>)] = "skill"
  /\ Len(discoverRun.skills) = 1
  /\ FoundSkill(1).dir = Dir("/w", <<"other", "deep", "beta">>)

\* The place of a directory in the precedence order.
Precedence(dir) ==
  IF dir \in StandardLocations THEN 1 ELSE IF dir \in AgentLocations THEN 2 ELSE 3

PrecedenceOf(source) == IF source = "standard" THEN 1 ELSE IF source = "agent" THEN 2 ELSE 3

(* C19: the returned skills have distinct names and distinct canonical paths;
   a returned skill comes from a location no later in the precedence order
   (standard, agent, fallback) than any directory with a valid SKILL.md of the
   same name or the same canonical path; the result is sorted by name, then
   by path. *)
C19_Deduplicated ==
  discoverRun.pc = "done" =>
    /\ \A i, j \in 1..Len(discoverRun.skills) :
         i < j =>
           /\ FoundSkill(i).name # FoundSkill(j).name
           /\ ToCanonicalPath(FoundSkill(i).dir, discoverRun.linked)
                # ToCanonicalPath(FoundSkill(j).dir, discoverRun.linked)
           /\ \/ LocaleCompare(FoundSkill(i).name, FoundSkill(j).name) < 0
              \/ /\ LocaleCompare(FoundSkill(i).name, FoundSkill(j).name) = 0
                 /\ LocaleCompare(FoundSkill(i).path, FoundSkill(j).path) <= 0
    /\ \A i \in 1..Len(discoverRun.skills) :
         /\ PrecedenceOf(FoundSkill(i).source) = Precedence(FoundSkill(i).dir)
         /\ \A dir \in SkillPlaces :
              (/\ ValidAt(dir)
               /\ \/ DirName(dir) = FoundSkill(i).name
                  \/ ToCanonicalPath(dir, discoverRun.linked)
                       = ToCanonicalPath(FoundSkill(i).dir, discoverRun.linked))
                => Precedence(FoundSkill(i).dir) <= Precedence(dir)

C19_SameNameKeptOnce ==
  /\ discoverRun.pc = "done"
  /\ discoverRun.tree[Dir("/w", <<"skills", "alpha">>)] = "skill"
  /\ discoverRun.tree[Dir("/w", <<".codex", "skills", "alpha">>)] = "skill"
  /\ Len(discoverRun.skills) = 1
  /\ FoundSkill(1).source = "standard"

\* The directories the run has looked into.
Encountered ==
  IF discoverRun.usedFallback
  THEN Range(FindSkillFilesRecursively(discoverRun.tree, discoverRun.linked))
  ELSE StandardLocations \cup AgentLocations

WarningsFor(dir) ==
  {i \in 1..Len(discoverRun.warnings) : discoverRun.warnings[i] = DirPath(dir) \o "/SKILL.md"}

\* No invalid SKILL.md gives a skill, and every valid one that was met is
\* returned or is the duplicate of a returned one.
SkillsTolerant ==
  /\ \A i \in 1..Len(discoverRun.skills) : ValidAt(FoundSkill(i).dir)
  /\ \A dir \in Encountered :
       ValidAt(dir) =>
         \E i \in 1..Len(discoverRun.skills) :
           \/ FoundSkill(i).name = DirName(dir)
           \/ ToCanonicalPath(FoundSkill(i).dir, discoverRun.linked)
                = ToCanonicalPath(dir, discoverRun.linked)

(* C20: an invalid SKILL.md never gives a skill and never keeps the valid,
   non-duplicate skills from being returned; warnings is empty when verbose
   is false, and when verbose is true it has exactly one warning for every
   invalid SKILL.md met, and no other. *)
C20_WarningPerInvalid ==
  discoverRun.pc = "done" =>
    /\ SkillsTolerant
    /\ ~discoverRun.verbose => discoverRun.warnings = <<>>
    /\ discoverRun.verbose =>
         \A dir \in SkillPlaces :
           Cardinality(WarningsFor(dir)) = IF dir \in Encountered /\ InvalidAt(dir) THEN 1 ELSE 0

\* The part that holds: the skills, the silence without verbose, and with
\* verbose a warning only for an invalid file, at least one when the parser
\* gave a SkillParseError.
C20_UnlessYamlOrRevisited ==
  discoverRun.pc = "done" =>
    /\ SkillsTolerant
    /\ ~discoverRun.verbose => discoverRun.warnings = <<>>
    /\ discoverRun.verbose =>
         \A dir \in SkillPlaces :
           /\ WarningsFor(dir) # {} => dir \in Encountered /\ InvalidAt(dir)
           /\ (dir \in Encountered /\ InvalidAt(dir) /\ FileAt(dir) # "yaml") => WarningsFor(dir) # {}
           /\ Cardinality(WarningsFor(dir)) > 1 =>
                dir \in {Dir("/w", <<"skills">>), Dir("/w", <<"skills", ".curated">>)}

C20_BrokenSkippedValidKept ==
  /\ discoverRun.pc = "done"
  /\ discoverRun.verbose
  /\ discoverRun.tree[Dir("/w", <<"skills", "alpha">>)] = "broken"
  /\ Len(discoverRun.warnings) = 1
  /\ Len(discoverRun.skills) = 1

(***************************************************************************)
(* What an update leaves installed                                         *)
(***************************************************************************)
\* The <<agent, skill>> pairs with a skill directory or a link at
\* <agent skills dir>/<skill>.
InstalledPairs(dirs) ==
  {an \in KNOWN_AGENTS \X SkillNames : dirs[an[1]][an[2]].kind \in {"dir", "symlink"}}

\* runUpdateCommand returned 0 after at least one add invocation.
UpdateSucceeded ==
  /\ updateRun.pc = "done"
  /\ ~updateRun.thrown
  /\ updateRun.exit = 0
  /\ updateRun.calls # <<>>

(* C26: after a successful update a skill is installed in an agent
   directory if and only if it was installed there before the update. *)
C26_PairsPreserved ==
  UpdateSucceeded => InstalledPairs(agentDirs) = InstalledPairs(updateRun.before.dirs)

\* The half of C26 the code keeps: a successful update removes no install.
C26_NothingRemoved ==
  UpdateSucceeded => InstalledPairs(updateRun.before.dirs) \subseteq InstalledPairs(agentDirs)

\* A successful update of alpha for one agent and beta for another, both of
\* one source tuple.
C26_TwoSkillsTwoAgents ==
  /\ UpdateSucceeded
  /\ InstalledPairs(updateRun.before.dirs) = {<<"claude", "alpha">>, <<"codex", "beta">>}
  /\ Len(updateRun.calls) = 1

\* What generateLockfile reads as the install method of an installed skill.
MethodAt(disk, an) == SourceOf(an[1], an[2], disk.dirs[an[1]][an[2]], disk.stor).installMethod

\* The <<agent, skill>> pairs the add invocations of the update were asked to install.
Reinstalled ==
  UNION {Range(UniqueSorted(updateRun.calls[c].args.agents))
           \X Range(UniqueSorted(updateRun.calls[c].args.skills)) :
         c \in {c \in 1..Len(updateRun.calls) : updateRun.calls[c].exit = 0}}

(* C27: every skill an update re-installs has, in its sidecar, the install
   method it had before the update. *)
C27_MethodPreserved ==
  UpdateSucceeded =>
    \A an \in Reinstalled \cap InstalledPairs(updateRun.before.dirs) :
      MethodAt(Disk(agentDirs, storage), an) = MethodAt(updateRun.before, an)

\* What the code does instead: every skill an update re-installs is a
\* symlink install afterwards.
C27_AlwaysSymlink ==
  UpdateSucceeded =>
    \A an \in Reinstalled :
      /\ MethodAt(Disk(agentDirs, storage), an) = "symlink"
      /\ agentDirs[an[1]][an[2]].kind = "symlink"

\* A successful update re-installed a skill that was a copy install.
C27_CopyReinstalled ==
  /\ UpdateSucceeded
  /\ \E an \in Reinstalled \cap InstalledPairs(updateRun.before.dirs) :
       MethodAt(updateRun.before, an) = "copy"

(***************************************************************************)
(* SpecParse: parseGitSource (resolvers/git.ts) on source strings drawn    *)
(* from a bounded set. A string is the sequence of its characters, so that *)
(* the patterns and the prefix tests are computed as the code computes     *)
(* them. No source of the model begins with http:// or https://.           *)
(***************************************************************************)
MaxBody == 3

FileScheme == <<"f", "i", "l", "e", ":", "/", "/">>
GitAt == <<"g", "i", "t", "@">>
DotGit == <<".", "g", "i", "t">>
GithubPrefix ==
  <<"h", "t", "t", "p", "s", ":", "/", "/", "g", "i", "t", "h", "u", "b", ".", "c", "o", "m", "/">>

\* An absent string, among strings that are sequences of characters.
NoChars == <<Undefined>>

\* process.cwd() and os.homedir(), as path segments.
WorkingDir == << <<"w">> >>
HomeDir == << <<"h">> >>

\* [a-zA-Z0-9._-] on the characters of the model
NameChars == {"a", "e", "f", "g", "i", "l", "t", ".", "_", "-"}

\* source.startsWith(prefix), source.endsWith(suffix)
StartsWith(source, prefix) ==
  Len(source) >= Len(prefix) /\ SubSeq(source, 1, Len(prefix)) = prefix
EndsWith(source, suffix) ==
  Len(source) >= Len(suffix)
    /\ SubSeq(source, Len(source) - Len(suffix) + 1, Len(source)) = suffix

\* source.slice(count)
DropChars(source, count) ==
  IF count >= Len(source) THEN <<>> ELSE SubSeq(source, count + 1, Len(source))

\* input.trim()
RECURSIVE Trim(_)
Trim(input) ==
  IF input = <<>> THEN input
  ELSE IF Head(input) = " " THEN Trim(Tail(input))
  ELSE IF input[Len(input)] = " " THEN Trim(SubSeq(input, 1, Len(input) - 1))
  ELSE input

\* source.indexOf(char), counted from 1; 0 when there is none.
IndexOfChar(source, char) ==
  IF \E i \in 1..Len(source) : source[i] = char
  THEN CHOOSE i \in 1..Len(source) :
         source[i] = char /\ \A j \in 1..(i - 1) : source[j] # char
  ELSE 0

\* splitHash: [base, hash], hash NoChars without a "#".
SplitHash(source) ==
  LET hashIndex == IndexOfChar(source, "#")
  IN IF hashIndex = 0 THEN [base |-> source, hash |-> NoChars]
     ELSE [base |-> SubSeq(source, 1, hashIndex - 1), hash |-> DropChars(source, hashIndex)]

\* source.split(separator)
RECURSIVE SplitChars(_, _)
SplitChars(source, separator) ==
  LET at == IndexOfChar(source, separator)
  IN IF at = 0 THEN <<source>>
     ELSE <<SubSeq(source, 1, at - 1)>> \o SplitChars(DropChars(source, at), separator)

\* SHORTHAND_PATTERN.test(source)
MatchesShorthand(source) ==
  LET parts == SplitChars(source, "/")
  IN /\ Len(parts) = 2
     /\ \A k \in 1..2 : parts[k] # <<>> /\ Range(parts[k]) \subseteq NameChars

\* SSH_PATTERN.test(source)
MatchesSsh(source) ==
  /\ StartsWith(source, GitAt)
  /\ LET rest == DropChars(source, Len(GitAt))
         colon == IndexOfChar(rest, ":")
     IN /\ colon > 1
        /\ colon < Len(rest)
        /\ " " \notin Range(DropChars(rest, colon))

\* isLocalPath, lines 235-242
IsLocalPath(source) ==
  \/ StartsWith(source, <<".">>)
  \/ StartsWith(source, <<"/">>)
  \/ StartsWith(source, <<"~", "/">>)
  \/ StartsWith(source, FileScheme)

Threw == [threw |-> TRUE, cloneUrl |-> <<>>, ref |-> NoChars, subdirectory |-> NoChars]

\* What normalizeCloneUrl leaves when it throws.
Unsupported == <<"<unsupported>">>

\* normalizeCloneUrl, lines 153-172: the characters of the clone URL, or Unsupported.
NormalizeCloneUrlOf(source) ==
  IF MatchesShorthand(source) THEN GithubPrefix \o source \o DotGit
  ELSE IF MatchesSsh(source) THEN (IF EndsWith(source, DotGit) THEN source ELSE source \o DotGit)
  ELSE IF IsLocalPath(source) THEN source
  ELSE Unsupported

\* The segments a path walks, "." skipped and ".." stepping up.
RECURSIVE WalkFrom(_, _)
WalkFrom(at, segments) ==
  IF segments = <<>> THEN at
  ELSE IF Head(segments) \in {<<>>, <<".">>} THEN WalkFrom(at, Tail(segments))
  ELSE IF Head(segments) = <<".", ".">>
  THEN WalkFrom(IF at = <<>> THEN at ELSE SubSeq(at, 1, Len(at) - 1), Tail(segments))
  ELSE WalkFrom(Append(at, Head(segments)), Tail(segments))

\* The characters of the absolute path with the segments.
RECURSIVE PathOf(_)
PathOf(segments) ==
  IF segments = <<>> THEN <<>> ELSE <<"/">> \o Head(segments) \o PathOf(Tail(segments))

AbsolutePath(segments) == IF segments = <<>> THEN <<"/">> ELSE PathOf(segments)

\* path.resolve(source)
PathResolve(source) ==
  AbsolutePath(WalkFrom(IF StartsWith(source, <<"/">>) THEN <<>> ELSE WorkingDir,
                        SplitChars(source, "/")))

\* path.join(os.homedir(), rest): normalize keeps a trailing separator.
JoinHome(rest) ==
  LET walked == WalkFrom(HomeDir, SplitChars(rest, "/"))
  IN IF walked # <<>> /\ EndsWith(rest, <<"/">>) THEN PathOf(walked) \o <<"/">>
     ELSE AbsolutePath(walked)

\* resolveLocalPath, lines 187-197
ResolveLocalPath(source) ==
  IF StartsWith(source, FileScheme) THEN PathResolve(DropChars(source, Len(FileScheme)))
  ELSE IF StartsWith(source, <<"~", "/">>) THEN JoinHome(DropChars(source, 2))
  ELSE PathResolve(source)

\* subdirectory.replace(/^\/+|\/+$/g, "")
RECURSIVE StripSlashes(_)
StripSlashes(subdirectory) ==
  IF subdirectory = <<>> THEN subdirectory
  ELSE IF Head(subdirectory) = "/" THEN StripSlashes(Tail(subdirectory))
  ELSE IF subdirectory[Len(subdirectory)] = "/"
  THEN StripSlashes(SubSeq(subdirectory, 1, Len(subdirectory) - 1))
  ELSE subdirectory

\* normalized.includes("..")
HasDotDot(normalized) ==
  \E i \in 1..(Len(normalized) - 1) : normalized[i] = "." /\ normalized[i + 1] = "."

\* parseGitSource, lines 29-66: [threw, cloneUrl, ref, subdirectory]
ParseGitSourceOf(input) ==
  LET original == Trim(input)
      split == SplitHash(original)
      normalized == NormalizeCloneUrlOf(split.base)
      pieces == IF split.hash = NoChars THEN <<>> ELSE SplitChars(split.hash, ":")
      ref == IF Len(pieces) >= 1 /\ pieces[1] # <<>> THEN pieces[1] ELSE NoChars
      hashSubdirectory == IF Len(pieces) >= 2 /\ pieces[2] # <<>> THEN pieces[2] ELSE NoChars
      subdirectory ==
        IF hashSubdirectory = NoChars THEN NoChars ELSE StripSlashes(hashSubdirectory)
  IN IF original = <<>> \/ normalized = Unsupported THEN Threw
     ELSE IF subdirectory # NoChars /\ subdirectory # <<>> /\ HasDotDot(subdirectory) THEN Threw
     ELSE [threw |-> FALSE,
           cloneUrl |-> IF IsLocalPath(normalized) THEN ResolveLocalPath(normalized)
                        ELSE normalized,
           ref |-> ref,
           subdirectory |-> subdirectory]

\* The source strings of SpecParse: a beginning, up to MaxBody more
\* characters, and an optional "#..." part.
Beginnings ==
  {<<>>, <<".">>, <<".", ".">>, <<"/">>, <<"~">>, <<"~", "/">>, FileScheme, GitAt, <<" ">>}

BodyChars == {"a", ".", "/", ":"}

Bodies == UNION {[1..n -> BodyChars] : n \in 0..MaxBody}

HashParts == {<<>>, <<"#", "a">>, <<"#", "a", ":", "a", "/">>, <<"#", ":", ".", ".">>}

GitSources == {b \o body \o h : b \in Beginnings, body \in Bodies, h \in HashParts}

outsideParse ==
  <<fsVars, lockVars, instVars, checkVars, cliVars, updateRun, ociRun, httpRun, discoverRun,
    agentsRun, addRun>>

\* parseGitSource is called with a source string.
ParseBegin ==
  /\ parseRun.pc = "idle"
  /\ \E input \in GitSources : parseRun' = [parseRun EXCEPT !.pc = "called", !.input = input]
  /\ UNCHANGED outsideParse

\* parseGitSource returns or throws.
ParseReturn ==
  /\ parseRun.pc = "called"
  /\ parseRun' = [parseRun EXCEPT !.pc = "done", !.parsed = ParseGitSourceOf(parseRun.input)]
  /\ UNCHANGED outsideParse

InitParse == InitOci

NextParse ==
  \/ ParseBegin
  \/ ParseReturn

SpecParse == InitParse /\ [][NextParse]_vars

\* The part of the source before its "#".
BaseOf(input) == SplitHash(Trim(input)).base

\* parseGitSource returned for a source whose base begins with ".", "/", "~/"
\* or "file://".
ParsedLocal ==
  /\ parseRun.pc = "done"
  /\ ~parseRun.parsed.threw
  /\ IsLocalPath(BaseOf(parseRun.input))

(* C22: for every source whose part before "#" begins with ".", "/", "~/"
   or "file://", the cloneUrl parseGitSource returns is an absolute path with
   no ".git" appended, never a github.com URL. *)
C22_LocalStaysLocal ==
  ParsedLocal =>
    /\ parseRun.parsed.cloneUrl = ResolveLocalPath(BaseOf(parseRun.input))
    /\ StartsWith(parseRun.parsed.cloneUrl, <<"/">>)
    /\ ~StartsWith(parseRun.parsed.cloneUrl, GithubPrefix)

\* The same, for the local bases that do not have the shape name/name.
C22_UnlessShorthandShaped ==
  (ParsedLocal /\ ~MatchesShorthand(BaseOf(parseRun.input))) =>
    /\ parseRun.parsed.cloneUrl = ResolveLocalPath(BaseOf(parseRun.input))
    /\ StartsWith(parseRun.parsed.cloneUrl, <<"/">>)
    /\ ~StartsWith(parseRun.parsed.cloneUrl, GithubPrefix)

\* parseGitSource returned for ./a
C22_DotSlashName ==
  /\ ParsedLocal
  /\ BaseOf(parseRun.input) = <<".", "/", "a">>

(***************************************************************************)
(* SpecAgents: resolveTargetAgents (agents/detection.ts) on options drawn  *)
(* from a bounded set: the explicit agents, the agent skills directories   *)
(* that exist under cwd and under homeDir, and the prompt callback with    *)
(* the selection it returns.                                               *)
(***************************************************************************)
MaxAgentsGiven == 2

\* A name that is not in KNOWN_AGENTS.
UnknownAgent == "ghost"

\* options.promptWhenNone: absent, or a callback returning the selection.
NoPrompt == [available |-> FALSE, selected |-> <<>>]
PromptReturning(selected) == [available |-> TRUE, selected |-> selected]

AgentsThrew == [threw |-> TRUE, agents |-> <<>>, prompted |-> 0]
AgentsReturned(agents, prompted) == [threw |-> FALSE, agents |-> agents, prompted |-> prompted]

\* detectInstalledAgents(...).map(item => item.agent), lines 59-85: the agents
\* with a project or a global skills directory, ascending.
DetectInstalledAgents(options) ==
  SortedStrings({agent \in KNOWN_AGENTS : agent \in options.project \/ agent \in options.global})

\* normalizeAgents, lines 107-114
NormalizeAgents(agents, prompted) ==
  IF \E i \in 1..Len(agents) : agents[i] \notin KNOWN_AGENTS
  THEN [AgentsThrew EXCEPT !.prompted = prompted]
  ELSE AgentsReturned(SortedStrings(Range(agents)), prompted)

\* resolveTargetAgents asking the prompt before it looks for directories.
ResolvePromptFirst(options) ==
  IF Len(options.explicitAgents) > 0 THEN NormalizeAgents(options.explicitAgents, 0)
  ELSE IF options.promptWhenNone.available
  THEN NormalizeAgents(options.promptWhenNone.selected, 1)
  ELSE IF DetectInstalledAgents(options) # <<>>
  THEN NormalizeAgents(DetectInstalledAgents(options), 0)
  ELSE AgentsThrew

\* resolveTargetAgents, lines 87-105: [threw, agents, prompted], prompted
\* counting the calls of promptWhenNone.
ResolveTargetAgents(options) ==
  IF Len(options.explicitAgents) > 0 THEN NormalizeAgents(options.explicitAgents, 0)
  ELSE IF DetectInstalledAgents(options) # <<>>
  THEN NormalizeAgents(DetectInstalledAgents(options), 0)
  ELSE IF options.promptWhenNone.available
  THEN NormalizeAgents(options.promptWhenNone.selected, 1)
  ELSE AgentsThrew

\* Lists of up to MaxAgentsGiven agent names, in any order, with repeats.
AgentLists ==
  UNION {[1..n -> {"claude", "codex", UnknownAgent}] : n \in 0..MaxAgentsGiven}

AgentOptions ==
  [explicitAgents : AgentLists,
   project : SUBSET {"claude", "cursor"},
   global : SUBSET {"claude", "codex"},
   promptWhenNone : {NoPrompt} \cup {PromptReturning(selected) : selected \in AgentLists}]

outsideAgents ==
  <<fsVars, lockVars, instVars, checkVars, cliVars, updateRun, ociRun, httpRun, discoverRun,
    parseRun, addRun>>

\* resolveTargetAgents is called.
AgentsBegin ==
  /\ agentsRun.pc = "idle"
  /\ \E options \in AgentOptions :
       agentsRun' = [agentsRun EXCEPT !.pc = "called", !.options = options]
  /\ UNCHANGED outsideAgents

\* resolveTargetAgents returns or throws.
AgentsReturn ==
  /\ agentsRun.pc = "called"
  /\ \E resolved \in {ResolveTargetAgents(agentsRun.options)} :
       agentsRun' = [agentsRun EXCEPT !.pc = "done", !.prompted = resolved.prompted,
                                      !.result = resolved]
  /\ UNCHANGED outsideAgents

InitAgents == InitOci

NextAgents ==
  \/ AgentsBegin
  \/ AgentsReturn

SpecAgents == InitAgents /\ [][NextAgents]_vars

\* The agents with a skills directory under cwd or under homeDir.
WithDirectory == agentsRun.options.project \cup agentsRun.options.global

\* The list the precedence picks: 1 explicit, 2 detected, 3 prompted, 0 none.
PickedFrom ==
  IF agentsRun.options.explicitAgents # <<>> THEN 1
  ELSE IF WithDirectory # {} THEN 2
  ELSE IF agentsRun.options.promptWhenNone.available THEN 3
  ELSE 0

PickedAgents ==
  IF PickedFrom = 1 THEN Range(agentsRun.options.explicitAgents)
  ELSE IF PickedFrom = 2 THEN WithDirectory
  ELSE IF PickedFrom = 3 THEN Range(agentsRun.options.promptWhenNone.selected)
  ELSE {}

(* C25: resolveTargetAgents returns the explicit agents if any are given,
   else the detected agents if any skills directory exists, else the
   prompt's selection if there is a prompt, else it throws; what it returns
   is de-duplicated, sorted and holds known agents only, and the prompt is
   called only when nothing is explicit and nothing is detected. *)
C25_Precedence ==
  agentsRun.pc = "done" =>
    /\ agentsRun.prompted = (IF PickedFrom = 3 THEN 1 ELSE 0)
    /\ agentsRun.result.threw <=> (PickedFrom = 0 \/ ~(PickedAgents \subseteq KNOWN_AGENTS))
    /\ ~agentsRun.result.threw =>
         /\ Range(agentsRun.result.agents) = PickedAgents
         /\ Range(agentsRun.result.agents) \subseteq KNOWN_AGENTS
         /\ \A i, j \in 1..Len(agentsRun.result.agents) :
              i < j => LocaleCompare(agentsRun.result.agents[i], agentsRun.result.agents[j]) < 0

\* Directories exist and a prompt is available: the detected agents are
\* returned and the prompt is not called.
C25_DetectedBeforePrompt ==
  /\ agentsRun.pc = "done"
  /\ PickedFrom = 2
  /\ agentsRun.options.promptWhenNone.available
  /\ agentsRun.options.promptWhenNone.selected = <<"codex", "claude">>
  /\ agentsRun.result = AgentsReturned(<<"claude", "cursor">>, 0)

(***************************************************************************)
(* runAddCommand with its prompts (commands/add.ts), in the project scope. *)
(***************************************************************************)
\* Two more commits of the upstream: one whose directory beta holds a
\* SKILL.md that declares the name alpha, and one without any SKILL.md.
CommitMisnamed == "3333333333333333333333333333333333333333"
CommitEmpty == "4444444444444444444444444444444444444444"

\* The skill directories of the checkout of a commit: directory name -> directory.
SourceTree(commit) ==
  IF commit \in Commits THEN CommitTree(commit)
  ELSE IF commit = CommitMisnamed
  THEN [n \in {"alpha", "beta"} |-> MkDir("alpha", [f \in {"notes.txt"} |-> "third"], NoMeta)]
  ELSE [n \in {"alpha"} |-> MkDir(Undefined, [f \in {"notes.txt"} |-> "fourth"], NoMeta)]

\* A prompt callback of RunAddCommandOptions: absent, or returning an answer.
NoCallback == [available |-> FALSE, answer |-> <<>>]
Callback(answer) == [available |-> TRUE, answer |-> answer]

\* The arguments of add: `all` is --all, `yes` is -y or --yes.
AddCommandLine(source, list, all, yes, copy, skills, agents) ==
  [source |-> source, list |-> list, all |-> all, yes |-> yes, copy |-> copy,
   skills |-> skills, agents |-> agents]

\* parseAddArgs, lines 166-255, and options.yes, lines 45-47. --all makes
\* yes true and the skills ["*"]; the lists are made unique and sorted.
ParseAddArgs(args, options) ==
  [list |-> args.list,
   yes |-> args.yes \/ args.all \/ options.yes,
   copy |-> args.copy,
   skills |-> UniqueSorted(IF args.all THEN <<"*">> ELSE args.skills),
   agents |-> UniqueSorted(args.agents)]

SelectionThrew(prompted) == [threw |-> TRUE, names |-> <<>>, prompted |-> prompted]
Selected(names, prompted) == [threw |-> FALSE, names |-> names, prompted |-> prompted]

\* selectSkills dropping the names it does not find.
SelectSkillsLeniently(parsed, available, promptSelectSkills) ==
  IF "*" \in Range(parsed.skills) THEN Selected(available, {})
  ELSE IF Len(parsed.skills) > 0
  THEN Selected(SelectSeq(available, LAMBDA n : n \in Range(parsed.skills)), {})
  ELSE IF parsed.yes THEN Selected(available, {})
  ELSE IF promptSelectSkills.available
  THEN Selected(SelectSeq(available, LAMBDA n : n \in Range(promptSelectSkills.answer)),
                {"promptSelectSkills"})
  ELSE Selected(available, {})

\* selectSkills, lines 426-465: [threw, names, prompted]
SelectSkillsWith(parsed, available, promptSelectSkills) ==
  IF "*" \in Range(parsed.skills) THEN Selected(available, {})
  ELSE IF Len(parsed.skills) > 0
  THEN IF \E i \in 1..Len(parsed.skills) : parsed.skills[i] \notin Range(available)
       THEN SelectionThrew({})
       ELSE Selected(SelectSeq(available, LAMBDA n : n \in Range(parsed.skills)), {})
  ELSE IF parsed.yes THEN Selected(available, {})
  ELSE IF promptSelectSkills.available
  THEN LET selected == UniqueSorted(promptSelectSkills.answer)
       IN IF Len(selected) = 0 \/ \E i \in 1..Len(selected) : selected[i] \notin Range(available)
          THEN SelectionThrew({"promptSelectSkills"})
          ELSE Selected(SelectSeq(available, LAMBDA n : n \in Range(selected)),
                        {"promptSelectSkills"})
  ELSE Selected(available, {})

\* The agents whose project skills directory exists: made earlier, or
\* holding an entry.
AgentDirsPresent(made, dirs) ==
  made \cup {agent \in KNOWN_AGENTS : \E n \in SkillNames : dirs[agent][n].kind # "none"}

\* selectAgents, lines 467-482: [threw, names, prompted]
SelectAgentsWith(parsed, present, promptSelectAgents) ==
  IF Len(parsed.agents) > 0 THEN Selected(parsed.agents, {})
  ELSE The({ [threw |-> resolved.threw, names |-> resolved.agents,
              prompted |-> IF resolved.prompted > 0 THEN {"promptSelectAgents"} ELSE {}] :
             resolved \in
               {ResolveTargetAgents([explicitAgents |-> <<>>, project |-> present, global |-> {},
                                     promptWhenNone |->
                                       IF promptSelectAgents.available
                                       THEN PromptReturning(promptSelectAgents.answer)
                                       ELSE NoPrompt])} })

\* selectInstallMethod, lines 484-501: [method, prompted]
SelectInstallMethodWith(parsed, promptSelectInstallMethod) ==
  IF parsed.copy THEN [method |-> "copy", prompted |-> {}]
  ELSE IF parsed.yes THEN [method |-> "symlink", prompted |-> {}]
  ELSE IF promptSelectInstallMethod.available
  THEN [method |-> promptSelectInstallMethod.answer, prompted |-> {"promptSelectInstallMethod"}]
  ELSE [method |-> "symlink", prompted |-> {}]

\* --list ignored.
NeverListsOnly(parsed) == FALSE

\* if (parsed.list), line 71
ListsOnly(parsed) == parsed.list

\* What runAddCommand did: its exit code (ExitUncaught for an exception that
\* leaves it), the lines it wrote, the prompts it called, the skills it
\* discovered, and the disk and the lockfile it left.
AddRan(exit, stdout, stderr, prompted, available, disk, lock) ==
  [exit |-> exit, stdout |-> stdout, stderr |-> stderr, prompted |-> prompted,
   available |-> available, disk |-> disk, lock |-> lock]

\* The stdout lines of --list and of the install loop.
ListedLines(available) == [k \in 1..Len(available) |-> <<"listed", available[k]>>]
InstalledLines(jobs) == [k \in 1..Len(jobs) |-> <<"installed", jobs[k][2], jobs[k][1]>>]

\* runAddCommand, lines 31-153, from the outcome of resolveSource on.
RunAdd(args, options, resolved, made, disk, lock, order) ==
  IF ~resolved.ok THEN AddRan(1, <<>>, <<"resolve">>, {}, <<>>, disk, lock)
  ELSE
  The({
    IF available = <<>> THEN AddRan(1, <<>>, <<"no skills">>, {}, available, disk, lock)
    ELSE IF ListsOnly(parsed) THEN AddRan(0, ListedLines(available), <<>>, {}, available, disk, lock)
    ELSE
    The({
      IF skills.threw THEN AddRan(1, <<>>, <<"select skills">>, skills.prompted, available, disk, lock)
      ELSE
      The({
        IF agents.threw
        THEN AddRan(1, <<>>, <<"select agents">>, skills.prompted \cup agents.prompted,
                    available, disk, lock)
        ELSE
        The({
          The({
            IF ~done.ok
            THEN AddRan(ExitUncaught, <<>>, <<>>, prompted, available, done.disk, lock)
            ELSE AddRan(0, InstalledLines(jobs), <<>>, prompted, available, done.disk,
                        GenerateLockfile(done.disk.dirs, ListingIn(order, done.disk.dirs),
                                         done.disk.stor)) :
            done \in {InstallFrom(1, jobs, disk, resolved, SourceTree(resolved.commit),
                                  chosen.method = "copy", TRUE)},
            prompted \in {skills.prompted \cup agents.prompted \cup chosen.prompted} }) :
          jobs \in {InstallJobs(agents.names, skills.names)},
          chosen \in {SelectInstallMethodWith(parsed, options.promptSelectInstallMethod)} }) :
        agents \in {SelectAgentsWith(parsed, AgentDirsPresent(made, disk.dirs),
                                     options.promptSelectAgents)} }) :
      skills \in {SelectSkillsWith(parsed, available, options.promptSelectSkills)} }) :
    parsed \in {ParseAddArgs(args, options)},
    available \in {DiscoverSourceSkills(SourceTree(resolved.commit))} })

(***************************************************************************)
(* SpecAdd: one runAddCommand call, with every combination of flags,       *)
(* prompt callbacks and answers of the upstream, in an empty project and   *)
(* in one that holds an installed skill and a regular file at an install   *)
(* path.                                                                   *)
(***************************************************************************)
\* The storage directories of the sources of SpecAdd and SpecAddSeq.
AddKeys ==
  {DigestSourceId(SourceIdOf([type |-> "git", url |-> RepoUrl, ref |-> ref, digest |-> commit])) :
     ref \in {Undefined, "main", "v1"},
     commit \in Commits \cup {CommitMisnamed, CommitEmpty}}

EmptyProject ==
  Disk([a \in KNOWN_AGENTS |-> [n \in SkillNames |-> NoEntry]],
       [k \in AddKeys |-> [n \in SkillNames |-> NoEntry]])

\* alpha installed for claude by symlink from main at CommitTwo, and a
\* regular file at ./.codex/skills/alpha.
EarlierInstall == SidecarJson("git", RepoUrl, "main", CommitTwo, "symlink")

ProjectInUse ==
  Disk([EmptyProject.dirs EXCEPT
          !["claude"]["alpha"] = LinkEntry(DigestSourceId(SourceIdOf(EarlierInstall))),
          !["codex"]["alpha"] = FileEntry],
       [EmptyProject.stor EXCEPT
          ![DigestSourceId(SourceIdOf(EarlierInstall))]["alpha"] =
            DirEntry(InstalledDir("alpha", EarlierInstall))])

\* The command lines of SpecAdd: --all comes without --skill.
AddCommandLines ==
  {AddCommandLine(SourceArg(RepoShorthand, "main"), list, FALSE, yes, copy, skills, agents) :
     list \in BOOLEAN, yes \in BOOLEAN, copy \in BOOLEAN,
     skills \in {<<>>, <<"alpha">>, <<"beta", "alpha">>, <<"gamma", "alpha">>, <<"*", "gamma">>},
     agents \in {<<>>, <<"claude">>, <<"codex", "claude">>}}
  \cup
  {AddCommandLine(SourceArg(RepoShorthand, "main"), list, TRUE, FALSE, copy, <<>>, agents) :
     list \in BOOLEAN, copy \in BOOLEAN, agents \in {<<>>, <<"claude">>, <<"codex", "claude">>}}

\* RunAddCommandOptions: no callback, or all three.
AddCommandOptions ==
  {[yes |-> yes, promptSelectSkills |-> NoCallback, promptSelectAgents |-> NoCallback,
    promptSelectInstallMethod |-> NoCallback] : yes \in BOOLEAN}
  \cup
  {[yes |-> FALSE, promptSelectSkills |-> Callback(skills),
    promptSelectAgents |-> Callback(agents), promptSelectInstallMethod |-> Callback("copy")] :
     skills \in {<<"alpha">>, <<"gamma", "alpha">>, <<>>}, agents \in {<<"codex">>, <<>>}}
  \cup
  {[yes |-> TRUE, promptSelectSkills |-> Callback(<<"alpha">>),
    promptSelectAgents |-> Callback(<<"codex">>), promptSelectInstallMethod |-> Callback("copy")]}

\* What resolveSource may do in SpecAdd: throw, or check out one of the commits.
AddResolutions(arg) ==
  Resolutions(arg) \cup {ResolvedAt(arg, commit) : commit \in {CommitMisnamed, CommitEmpty}}

outsideAdd ==
  <<lockRuns, instVars, checkVars, cliVars, updateRun, ociRun, httpRun, discoverRun, parseRun,
    agentsRun>>

\* What addRun records of a call.
AddCalled(run, args, options, resolved, ran, before) ==
  [run EXCEPT !.pc = "done", !.count = @ + 1, !.args = args, !.options = options,
              !.resolved = resolved, !.before = before, !.exit = ran.exit,
              !.stdout = ran.stdout, !.stderr = ran.stderr, !.prompted = ran.prompted,
              !.available = ran.available]

\* One call of runAddCommand.
AddCommand ==
  /\ addRun.pc = "idle"
  /\ \E args \in AddCommandLines, options \in AddCommandOptions, order \in ReaddirOrders :
       \E resolved \in AddResolutions(args.source) :
         \E ran \in {RunAdd(args, options, resolved, addRun.made, Disk(agentDirs, storage),
                            lockfile, order)} :
           /\ agentDirs' = ran.disk.dirs
           /\ storage' = ran.disk.stor
           /\ lockfile' = ran.lock
           /\ addRun' = AddCalled(addRun, args, options, resolved, ran,
                                  [dirs |-> agentDirs, stor |-> storage, lock |-> lockfile])
  /\ UNCHANGED outsideAdd

InitAdd ==
  /\ \E project \in {EmptyProject, ProjectInUse} :
       /\ agentDirs = project.dirs
       /\ storage = project.stor
       /\ lockfile = IF project = EmptyProject THEN NoLockfile
                     ELSE GenerateLockfile(project.dirs, ListingIn(<<"alpha", "beta">>, project.dirs),
                                           project.stor)
  /\ lockRuns = <<>>
  /\ InstallerAtRest
  /\ CheckerAtRest
  /\ CommandsAtRest
  /\ updateRun = NoUpdateRun
  /\ ociRun = NoOciRun
  /\ httpRun = NoHttpRun
  /\ discoverRun = NoDiscoverRun
  /\ parseRun = NoParseRun
  /\ agentsRun = NoAgentsRun
  /\ \E made \in {{}, {"cursor"}} : addRun = [NoAddRun EXCEPT !.made = made]

NextAdd == AddCommand

SpecAdd == InitAdd /\ [][NextAdd]_vars

(***************************************************************************)
(* Properties of one runAddCommand call                                    *)
(***************************************************************************)
AddDone == addRun.pc = "done"

\* parseAddArgs of the call addRun records.
ParsedOfCall == ParseAddArgs(addRun.args, addRun.options)

\* The call left the agent directories, the storage root and the lockfile
\* as it found them.
AddChangedNothing ==
  /\ agentDirs = addRun.before.dirs
  /\ storage = addRun.before.stor
  /\ lockfile = addRun.before.lock

\* The source resolved and holds at least one skill.
SkillsDiscovered == addRun.resolved.ok /\ addRun.available # <<>>

\* generateLockfile on the disk as it is, for some order of readdir.
LockfileIsCurrent ==
  \E order \in ReaddirOrders :
    lockfile = GenerateLockfile(agentDirs, ListingIn(order, agentDirs), storage)

(* C21: every skill add accepts from the source declares the name of its
   directory; every installed directory, in the agent skills directories
   and in storage, is named as the skill it holds declares; every name the
   lockfile lists is the name of an installed directory of one of the
   entry's agents. *)
C21_NamesAgree ==
  AddDone =>
    /\ \A k \in 1..Len(addRun.available) :
         SourceTree(addRun.resolved.commit)[addRun.available[k]].skillmd = addRun.available[k]
    /\ \A an \in InstalledPairs(agentDirs) :
         Exists(agentDirs[an[1]][an[2]], an[2], storage) =>
           Stat(agentDirs[an[1]][an[2]], an[2], storage).dir.skillmd = an[2]
    /\ \A key \in DOMAIN storage, n \in SkillNames :
         storage[key][n].kind = "dir" => storage[key][n].dir.skillmd = n
    /\ lockfile # NoLockfile =>
         \A i \in 1..Len(lockfile) : \A k \in 1..Len(lockfile[i].skills) :
           \E a \in Range(lockfile[i].agents) :
             <<a, lockfile[i].skills[k]>> \in InstalledPairs(agentDirs)

\* add installed from the commit whose directory beta declares the name
\* alpha: alpha alone was accepted and installed.
C21_MisnamedLeftOut ==
  /\ AddDone
  /\ addRun.exit = 0
  /\ addRun.resolved.commit = CommitMisnamed
  /\ addRun.available = <<"alpha">>
  /\ addRun.before.dirs = EmptyProject.dirs
  /\ InstalledPairs(agentDirs) = {<<"claude", "alpha">>}

(* C23: whenever yes is in effect (-y, --all or options.yes), runAddCommand
   calls none of the prompt callbacks. *)
C23_YesNeverPrompts ==
  (AddDone /\ ParsedOfCall.yes) => addRun.prompted = {}

\* With yes in effect the skill prompt and the method prompt are never called.
C23_YesSkipsSkillAndMethodPrompts ==
  (AddDone /\ ParsedOfCall.yes) => addRun.prompted \subseteq {"promptSelectAgents"}

\* -y, no --agent, no agent skills directory: the agent prompt was called.
C23_AgentPromptUnderYes ==
  /\ AddDone
  /\ addRun.args.yes
  /\ addRun.prompted = {"promptSelectAgents"}

(* C24: with --list, runAddCommand installs nothing, writes nothing to the
   storage root or the lockfile and calls no prompt; if the source resolves
   and holds a skill it prints one line per discovered skill and returns 0,
   otherwise it writes one error line and returns 1. *)
C24_ListIsReadOnly ==
  (AddDone /\ addRun.args.list) =>
    /\ AddChangedNothing
    /\ addRun.prompted = {}
    /\ IF SkillsDiscovered
       THEN addRun.exit = 0 /\ addRun.stdout = ListedLines(addRun.available)
            /\ addRun.stderr = <<>>
       ELSE addRun.exit = 1 /\ addRun.stdout = <<>> /\ Len(addRun.stderr) = 1

\* C24 as stated: for a source that resolves, --list prints a line per
\* discovered skill and returns 0.
C24_ListReturnsZero ==
  (AddDone /\ addRun.args.list /\ addRun.resolved.ok) =>
    /\ AddChangedNothing
    /\ addRun.exit = 0
    /\ Len(addRun.stdout) = Len(addRun.available)

\* --list --skill alpha --agent claude on a source with two skills, in the
\* project in use: two lines, nothing changed.
C24_TwoListed ==
  /\ AddDone
  /\ addRun.args.list
  /\ addRun.args.skills = <<"alpha">>
  /\ addRun.args.agents = <<"claude">>
  /\ addRun.stdout = <<<<"listed", "alpha">>, <<"listed", "beta">>>>
  /\ addRun.before.dirs = ProjectInUse.dirs

(* C29: whenever runAddCommand ends after it changed an agent directory,
   the lockfile is what generateLockfile produces from the disk. *)
C29_LockfileCurrent ==
  (AddDone /\ agentDirs # addRun.before.dirs) => LockfileIsCurrent

\* The same, when runAddCommand returned 0 from its install loop.
C29_CurrentWhenReturned ==
  (AddDone /\ addRun.exit = 0 /\ ~addRun.args.list) => LockfileIsCurrent

\* The names selectSkills validates: those of --skill, or else those the
\* prompt returned when the prompt is asked.
NamesToValidate ==
  IF ParsedOfCall.skills # <<>> THEN Range(ParsedOfCall.skills)
  ELSE IF ~ParsedOfCall.yes /\ addRun.options.promptSelectSkills.available
  THEN Range(addRun.options.promptSelectSkills.answer)
  ELSE {}

\* A name to validate is not among the discovered skills, and "*" is not given.
MissingSkill ==
  /\ "*" \notin Range(ParsedOfCall.skills)
  /\ \E name \in NamesToValidate : name \notin Range(addRun.available)

\* No --agent, no agent skills directory and no agent prompt.
NoAgentResolvable ==
  /\ ParsedOfCall.agents = <<>>
  /\ AgentDirsPresent(addRun.made, addRun.before.dirs) = {}
  /\ ~addRun.options.promptSelectAgents.available

(* C30: without --list, for a source that holds skills: if a name given
   with --skill (without "*" or --all) or returned by the skill prompt is
   not among the discovered skills, or if no agent can be resolved,
   runAddCommand returns 1 with one error line and changes neither an agent
   directory nor the storage root nor the lockfile. *)
C30_ValidatedBeforeInstall ==
  (AddDone /\ SkillsDiscovered /\ ~addRun.args.list /\ (MissingSkill \/ NoAgentResolvable)) =>
    /\ addRun.exit = 1
    /\ Len(addRun.stderr) = 1
    /\ addRun.stdout = <<>>
    /\ AddChangedNothing

\* C30 as stated: any --skill name that is not discovered makes the command
\* return 1.
C30_AnyMissingName ==
  (AddDone /\ SkillsDiscovered
     /\ \E name \in Range(addRun.args.skills) \ {"*"} : name \notin Range(addRun.available)) =>
    /\ addRun.exit = 1
    /\ Len(addRun.stderr) = 1
    /\ AddChangedNothing

\* --skill gamma,alpha --agent claude -y on a source that holds alpha and
\* beta: returned 1, alpha was not installed.
C30_OtherSkillNotInstalled ==
  /\ AddDone
  /\ MissingSkill
  /\ ~addRun.args.list
  /\ addRun.args.skills = <<"gamma", "alpha">>
  /\ addRun.args.agents = <<"claude">>
  /\ addRun.available = <<"alpha", "beta">>
  /\ addRun.before.dirs = EmptyProject.dirs
  /\ addRun.exit = 1
  /\ InstalledPairs(agentDirs) = {}

(***************************************************************************)
(* SpecAddSeq: up to MaxAdds runAddCommand calls in a row in a project     *)
(* that starts empty, each with -y and --agent, with or without --copy,    *)
(* for one or all skills of the source, against an upstream whose branch   *)
(* may be at either commit.                                                *)
(***************************************************************************)
MaxAdds == 2

\* No add has installed the skill for the agent.
NotByAdd == [type |-> "<none>", url |-> "", ref |-> Undefined, digest |-> Undefined]

\* sourceMetadata, lines 107-112
SourceMetadata(resolved) ==
  [type |-> resolved.type, url |-> resolved.url, ref |-> resolved.ref, digest |-> resolved.digest]

SeqCommandLines ==
  {AddCommandLine(SourceArg(RepoShorthand, "main"), FALSE, FALSE, TRUE, copy, skills, agents) :
     copy \in BOOLEAN, skills \in {<<>>, <<"alpha">>},
     agents \in {<<"claude">>, <<"codex">>, <<"claude", "codex">>}}

NoCallbacks ==
  [yes |-> FALSE, promptSelectSkills |-> NoCallback, promptSelectAgents |-> NoCallback,
   promptSelectInstallMethod |-> NoCallback]

\* The <<agent, skill>> pairs of the "Installed ..." lines of a call.
PairsInstalled(stdout) == {<<stdout[k][3], stdout[k][2]>> : k \in 1..Len(stdout)}

\* One more call of runAddCommand.
AddNext ==
  /\ addRun.pc \in {"idle", "done"}
  /\ addRun.count < MaxAdds
  /\ \E args \in SeqCommandLines, order \in ReaddirOrders :
       \E resolved \in Resolutions(args.source) :
         \E ran \in {RunAdd(args, NoCallbacks, resolved, addRun.made, Disk(agentDirs, storage),
                            lockfile, order)} :
           /\ agentDirs' = ran.disk.dirs
           /\ storage' = ran.disk.stor
           /\ lockfile' = ran.lock
           /\ addRun' =
                [AddCalled(addRun, args, NoCallbacks, resolved, ran,
                           [dirs |-> agentDirs, stor |-> storage, lock |-> lockfile])
                 EXCEPT !.succeeded = @ /\ ran.exit = 0,
                        !.copied = @ \/ args.copy,
                        !.ledger = [pair \in DOMAIN @ |->
                                      IF ran.exit = 0 /\ pair \in PairsInstalled(ran.stdout)
                                      THEN SourceMetadata(resolved) ELSE @[pair]]]
  /\ UNCHANGED outsideAdd

InitAddSeq ==
  /\ agentDirs = EmptyProject.dirs
  /\ storage = EmptyProject.stor
  /\ lockfile = NoLockfile
  /\ lockRuns = <<>>
  /\ InstallerAtRest
  /\ CheckerAtRest
  /\ CommandsAtRest
  /\ updateRun = NoUpdateRun
  /\ ociRun = NoOciRun
  /\ httpRun = NoHttpRun
  /\ discoverRun = NoDiscoverRun
  /\ parseRun = NoParseRun
  /\ agentsRun = NoAgentsRun
  /\ addRun = [NoAddRun EXCEPT !.ledger = [pair \in KNOWN_AGENTS \X SkillNames |-> NotByAdd]]

NextAddSeq == AddNext

SpecAddSeq == InitAddSeq /\ [][NextAddSeq]_vars

\* type, url, ref and digest as generateLockfile reads them for an installed skill.
ProvenanceAt(pair) ==
  LET source == SourceOf(pair[1], pair[2], agentDirs[pair[1]][pair[2]], storage)
  IN [type |-> source.type, url |-> source.url, ref |-> source.ref, digest |-> source.digest]

\* Every add so far returned 0, and there was one.
AllAddsSucceeded == addRun.count > 0 /\ addRun.succeeded

(* C28: after a sequence of successful adds, every skill add installed for
   an agent has a sidecar with the type, url, ref and digest of the add that
   last installed it there, so the lockfile never lists it as unknown. *)
C28_ProvenanceKept ==
  AllAddsSucceeded =>
    \A pair \in DOMAIN addRun.ledger :
      addRun.ledger[pair] # NotByAdd => ProvenanceAt(pair) = addRun.ledger[pair]

\* The same, for sequences of adds that never use --copy.
C28_KeptWithoutCopy ==
  (AllAddsSucceeded /\ ~addRun.copied) =>
    \A pair \in DOMAIN addRun.ledger :
      addRun.ledger[pair] # NotByAdd => ProvenanceAt(pair) = addRun.ledger[pair]

\* Two successful adds, the second with --copy, have installed alpha for
\* both agents.
C28_CopyAfterSymlink ==
  /\ AllAddsSucceeded
  /\ addRun.count = 2
  /\ addRun.args.copy
  /\ {<<"claude", "alpha">>, <<"codex", "alpha">>} \subseteq InstalledPairs(agentDirs)

====
